---- MODULE Spec2Model ----
(***************************************************************************)
(* A model of panscola's column-specification and table-layout engine:     *)
(*   - table.py: table_matrix_to_pf (row/cell matrix -> Table with         *)
(*     covered placeholder cells), width allocation and underline rules    *)
(*     of render_table_latex / render_table_odt;                           *)
(*   - _latex_column_definitions.py: construction of column specifiers     *)
(*     (_MetaDefinition's generated __init__), column_specifiers_from_     *)
(*     string, indent and get_n_definition;                                *)
(*   - figure.py: the cell-option sentinels (_get_cell_options), the       *)
(*     multicolumn alignment step of format_row, the cells and rules       *)
(*     format_row makes of one row, and the two walks over the '~~~' of a  *)
(*     table (get_cols, find_indents);                                     *)
(*   - _parsers.py: the grammar of column definitions, and __repr__;       *)
(*   - utils.py: count_elements / get_elem_count, the resolution of        *)
(*     dependencies (resolve_dependencies, reduce_dependencies), and       *)
(*     before_action with the walk that replaces Element.walk.             *)
(* Python floats are modelled as exact rationals <<numerator, denominator>>*)
(* so that equalities of sums are decided exactly.                         *)
(***************************************************************************)
EXTENDS Integers, Sequences, FiniteSets, TLC

VARIABLES
    \* table_matrix_to_pf (table.py:165-228)
    tm_pc,            \* "idle" | "loop" | "returned" | "raised"
    tm_r,             \* r: index of the next row of the matrix
    tm_first,         \* table[0]: the first row of the matrix (<<>> before it)
    tm_row,           \* row: the matrix row handled last (<<>> before the first)
    tm_rows,          \* rows: the TableRow objects built so far
    tm_new_col_cnt,   \* new_col_cnt at the head of the loop
    tm_old_col_cnt,   \* old_col_cnt (NoCount while it is None)
    tm_result,        \* the Table returned, or the exception raised
    \* width allocation of render_table_latex / render_table_odt
    wa_pc,            \* "idle" | "ready" | "done"
    wa_table,         \* [width, total_width] of the table being rendered
    wa_backend,       \* "latex" | "odt" | "none"
    wa_result,        \* the resolved widths, or the exception raised
    \* underline rules of render_table_latex (table.py:419-437)
    ul_pc,            \* "idle" | "row"
    ul_col_cnt,       \* table.col_cnt
    ul_underline,     \* the (start, stop) handled last
    ul_hlines,        \* the add_hline calls made for the row so far
    \* column specifiers (_latex_column_definitions.py)
    heap,             \* the specifier objects, by identity (1 = SColumn's shared
                      \* default multicolumn_definitions, an l column)
    alignment,        \* the list the last indent() returned
    cs_call,          \* the call made last
    cs_result,        \* what it returned or raised
    \* cell options (figure.py: get_cell_options)
    co_pc,            \* "idle", "walk", "returned" or "raised"
    co_n,             \* the number of elements of the cell walked so far
    co_elem,          \* the element _get_cell_options was called with last
    co_removed,       \* whether that call removed the element from the cell
    doc_cell_options, \* doc.cell_options
    co_result,        \* what get_cell_options returned
    \* utils.py: the element counters and the calls of its functions
    doc_count_elems,  \* doc.count_elems (Unset until first assigned)
    ut_walked,        \* the count_elements calls made so far, in order
    ut_call,          \* the call of a utils function made last
    ut_result,        \* what it returned or raised
    \* figure.py: format_row
    fr_pc,            \* "idle", "loop" or "returned"
    fr_cols,          \* cols: the indentation depth of each column of the row
    fr_is_header,     \* is_header
    fr_i,             \* i: the index of the next cell (from 0)
    fr_first,         \* first
    fr_skip,          \* skip
    fr_cells,         \* len(cells)
    fr_lines,         \* len(lines)
    fr_appended,      \* what the step made last appended to lines
    fr_cell,          \* the cell handled last, the from_ computed for it and
                      \* the padding of the specifier it was aligned with
    fr_leave,         \* table_attributes.get("leave_table_padding") == "true"
    fr_columns,       \* the physical columns the inlines of cells fill
    fr_spanned,       \* the source cells after i that the multicolumn
                      \* handled last still spans
    \* figure.py: get_cols and find_indents
    gc_pc,            \* "idle", "called", "measure", "format" or "formatted"
    gc_given,         \* the table as format_table got it
    gc_elem,          \* elem: the table as it is now
    gc_cols,          \* cols
    gc_r,             \* the row being walked, in the chain of header and rows
    gc_i,             \* the cell being walked (from 1)
    doc_table_indent, \* doc.table_indent
    doc_purge_indents, \* doc.purge_indents (Unset until get_cols assigns it)
    \* utils.py: before_action and walk
    wk_pc,            \* "idle", "called", "walking", "returned" or "raised"
    wk_tree,          \* the parent of each element of the tree walked
    wk_yields,        \* the number of yields of the action's function
    wk_actions,       \* the _BeforeAction instances made so far
    wk_stack,         \* the walks under way: element, action, child walked last
    wk_log            \* the parts of the function run so far

tm_vars == <<tm_pc, tm_r, tm_first, tm_row, tm_rows, tm_new_col_cnt, tm_old_col_cnt, tm_result>>
wa_vars == <<wa_pc, wa_table, wa_backend, wa_result>>
ul_vars == <<ul_pc, ul_col_cnt, ul_underline, ul_hlines>>
cs_vars == <<heap, alignment, cs_call, cs_result>>

co_vars == <<co_pc, co_n, co_elem, co_removed, doc_cell_options, co_result>>

ut_vars == <<doc_count_elems, ut_walked, ut_call, ut_result>>

fr_vars == <<fr_pc, fr_cols, fr_is_header, fr_leave, fr_i, fr_first, fr_skip, fr_cells, fr_lines, fr_appended, fr_cell, fr_columns, fr_spanned>>
gc_vars == <<gc_pc, gc_given, gc_elem, gc_cols, gc_r, gc_i, doc_table_indent, doc_purge_indents>>

wk_vars == <<wk_pc, wk_tree, wk_yields, wk_actions, wk_stack, wk_log>>

vars == <<tm_vars, wa_vars, ul_vars, cs_vars, co_vars, ut_vars, fr_vars, gc_vars, wk_vars>>

----------------------------------------------------------------------------
(* Generic helpers *)

RECURSIVE SeqSum(_)
SeqSum(s) == IF s = <<>> THEN 0 ELSE Head(s) + SeqSum(Tail(s))

\* All sequences over S of length lo..hi
SeqsOf(S, lo, hi) == UNION {[1..n -> S] : n \in lo..hi}

Max(a, b) == IF a >= b THEN a ELSE b

Min(a, b) == IF a <= b THEN a ELSE b

----------------------------------------------------------------------------
(* Exact rationals standing for Python floats: <<n, d>> with d > 0, reduced *)

RECURSIVE GCD(_, _)
GCD(a, b) == IF b = 0 THEN a ELSE GCD(b, a % b)

Abs(a) == IF a < 0 THEN -a ELSE a

RNorm(n, d) ==
    LET g == GCD(Abs(n), Abs(d))
        s == IF d < 0 THEN -1 ELSE 1
    IN  <<(s * n) \div g, (s * d) \div g>>

Rat(n, d) == RNorm(n, d)

RZero == <<0, 1>>

ROne == <<1, 1>>

RAdd(a, b) ==
    LET g == GCD(a[2], b[2])
    IN  RNorm(a[1] * (b[2] \div g) + b[1] * (a[2] \div g), (a[2] \div g) * b[2])

RSub(a, b) == RAdd(a, <<-b[1], b[2]>>)

RMul(a, b) ==
    LET g1 == GCD(Abs(a[1]), b[2])
        g2 == GCD(Abs(b[1]), a[2])
    IN  RNorm((a[1] \div g1) * (b[1] \div g2), (a[2] \div g2) * (b[2] \div g1))

\* a / b for b # 0
RDiv(a, b) == RNorm(a[1] * b[2], a[2] * b[1])

RLeq(a, b) ==
    LET g == GCD(a[2], b[2])
    IN  a[1] * (b[2] \div g) <= b[1] * (a[2] \div g)

RLess(a, b) == ~RLeq(b, a)

RMax(a, b) == IF RLeq(b, a) THEN a ELSE b

\* Python truthiness of a float: 0.0 is falsy
RTruthy(a) == a[1] # 0

RECURSIVE RSum(_)
RSum(s) == IF s = <<>> THEN RZero ELSE RAdd(Head(s), RSum(Tail(s)))

----------------------------------------------------------------------------
(* table.py: table_matrix_to_pf *)

MaxRows == 2
MaxCells == 4

\* old_col_cnt = None
NoCount == -1

\* A cell of the input matrix: a bare string, or a tuple (c_args, c_kwargs)
\* whose c_kwargs may hold 'col_span' and 'repeat'.
StrCell == [is_tuple |-> FALSE, col_span |-> 1, has_repeat |-> FALSE, repeat |-> 1]

TupleCell(span, has_rep, rep) ==
    [is_tuple |-> TRUE, col_span |-> span, has_repeat |-> has_rep, repeat |-> rep]

\* The cells the matrix rows are drawn from: a plain string, a cell spanning
\* three columns, and a cell spanning two columns that is repeated twice.
MatrixCells == {StrCell, TupleCell(3, FALSE, 1), TupleCell(2, TRUE, 2)}

MatrixRows == SeqsOf(MatrixCells, 0, MaxCells)

\* TableCell(..., col_span=, covered=) (table.py:50-70)
TableCell(span, cov) == [col_span |-> span, covered |-> cov]

\* Mutant of CoveredCells: range(1, col_span + 1), one placeholder too many
RECURSIVE CoveredCellsOneMore(_, _)
CoveredCellsOneMore(i, col_span) ==
    IF i > col_span THEN <<>>
    ELSE <<TableCell(1, TRUE)>> \o CoveredCellsOneMore(i + 1, col_span)

\* for i in range(1, col_span): cells.append(TableCell(pf.Null(), covered=True))
RECURSIVE CoveredCells(_, _)
CoveredCells(i, col_span) ==
    IF i >= col_span THEN <<>>
    ELSE <<TableCell(1, TRUE)>> \o CoveredCells(i + 1, col_span)

\* for _ in range(repeat): append the cell, then its covered placeholders
RECURSIVE RepeatCells(_, _)
RepeatCells(n, col_span) ==
    IF n <= 0 THEN <<>>
    ELSE <<TableCell(col_span, FALSE)>> \o CoveredCells(1, col_span)
         \o RepeatCells(n - 1, col_span)

\* The TableCells one matrix cell appends to `cells` (table.py:181-202)
CellsOfCell(cell) ==
    IF cell.is_tuple
    THEN RepeatCells(IF cell.has_repeat THEN cell.repeat ELSE 1, cell.col_span)
    ELSE <<TableCell(1, FALSE)>>

\* The `cells` list of one row
RECURSIVE CellsOfRow(_)
CellsOfRow(row) ==
    IF row = <<>> THEN <<>> ELSE CellsOfCell(Head(row)) \o CellsOfRow(Tail(row))

\* new_col_cnt after the row: it is incremented once beside every append
NewColCnt(start, row) == start + Len(CellsOfRow(row))

\* Mutant of ResetColCnt: the reset at the end of the row is forgotten
ResetColCntSkipped(cnt) == cnt

\* new_col_cnt = 0 at the end of an accepted row (table.py:212)
ResetColCnt(cnt) == 0

IndexError(expected, got, row, r) ==
    [exc |-> "IndexError", expected |-> expected, got |-> got, row |-> row, r |-> r]

TypeErrorNone == [exc |-> "TypeError", expected |-> 0, got |-> 0, row |-> <<>>, r |-> 0]

NoResult == [exc |-> "none"]

\* Table(*rows, col_cnt=old_col_cnt, row_cnt=row_cnt) (table.py:219-228)
Table(rows, col_cnt, row_cnt) ==
    [exc |-> "none", content |-> rows, col_cnt |-> col_cnt, row_cnt |-> row_cnt]

TableMatrixInit ==
    /\ tm_pc = "loop"
    /\ tm_r = 0
    /\ tm_first = <<>>
    /\ tm_row = <<>>
    /\ tm_rows = <<>>
    /\ tm_new_col_cnt = 0
    /\ tm_old_col_cnt = NoCount
    /\ tm_result = NoResult

TableMatrixIdle ==
    /\ tm_pc = "idle"
    /\ tm_r = 0
    /\ tm_first = <<>>
    /\ tm_row = <<>>
    /\ tm_rows = <<>>
    /\ tm_new_col_cnt = 0
    /\ tm_old_col_cnt = NoCount
    /\ tm_result = NoResult

\* One iteration of `for r, row in enumerate(table)` (table.py:178-214)
table_matrix_row(row) ==
    /\ tm_pc = "loop"
    /\ tm_r < MaxRows
    /\ LET cells == CellsOfRow(row)
           new_col_cnt == NewColCnt(tm_new_col_cnt, row)
           old_col_cnt == IF tm_old_col_cnt = NoCount THEN new_col_cnt
                          ELSE tm_old_col_cnt
       IN  /\ tm_row' = row
           /\ tm_first' = IF tm_r = 0 THEN row ELSE tm_first
           /\ tm_old_col_cnt' = old_col_cnt
           /\ IF new_col_cnt # old_col_cnt
              THEN \* raise IndexError: the locals are gone, nothing is returned
                   /\ tm_pc' = "raised"
                   /\ tm_result' = IndexError(old_col_cnt, new_col_cnt, row, tm_r)
                   /\ tm_rows' = <<>>
                   /\ tm_new_col_cnt' = new_col_cnt
                   /\ tm_r' = tm_r
              ELSE /\ tm_pc' = "loop"
                   /\ tm_result' = tm_result
                   /\ tm_rows' = Append(tm_rows, cells)
                   /\ tm_new_col_cnt' = ResetColCnt(new_col_cnt)
                   /\ tm_r' = tm_r + 1

\* The loop is exhausted: the Table is built from rows (table.py:216-228)
table_matrix_return ==
    /\ tm_pc = "loop"
    /\ tm_old_col_cnt # NoCount
    /\ tm_pc' = "returned"
    /\ tm_result' = Table(tm_rows, tm_old_col_cnt, tm_r)
    /\ UNCHANGED <<tm_r, tm_first, tm_row, tm_rows, tm_new_col_cnt, tm_old_col_cnt>>

\* A matrix without rows: Table(col_cnt=None) fails in check_type(None, int)
\* (table.py:37, utils.py:227-234)
table_matrix_empty ==
    /\ tm_pc = "loop"
    /\ tm_old_col_cnt = NoCount
    /\ tm_pc' = "raised"
    /\ tm_result' = TypeErrorNone
    /\ UNCHANGED <<tm_r, tm_first, tm_row, tm_rows, tm_new_col_cnt, tm_old_col_cnt>>

----------------------------------------------------------------------------
(* table.py: width allocation in render_table_latex and render_table_odt *)

MaxCols == 3

\* The raw widths a column may declare (0 = unspecified), in twelfths
RawWidths == {Rat(0, 1), Rat(1, 4), Rat(1, 3), Rat(1, 2)}

\* Table.total_width: the default 0.8 (table.py:32) and two other budgets
TotalWidths == {Rat(4, 5), Rat(1, 1), Rat(1, 2)}

ZeroDivisionError == [exc |-> "ZeroDivisionError", widths |-> <<>>]

Widths(ws) == [exc |-> "none", widths |-> ws]

\* len([w for w in table.width if not w])
UnspecifiedWidths(width) == Cardinality({i \in DOMAIN width : ~RTruthy(width[i])})

\* table.py:320-327 and table.py:503-510
ResolveWidths(width, total_width) ==
    LET unoccupied_width == RSub(ROne, RSum(width))
        unspecified_widths == UnspecifiedWidths(width)
    IN  IF unspecified_widths = 0
        THEN ZeroDivisionError
        ELSE LET remaining_for_each ==
                     RDiv(unoccupied_width, Rat(unspecified_widths, 1))
                 widths == [i \in DOMAIN width |->
                              IF RTruthy(width[i]) THEN width[i]
                              ELSE remaining_for_each]
             IN  Widths([i \in DOMAIN widths |-> RMul(widths[i], total_width)])

WidthInit ==
    /\ wa_pc = "ready"
    /\ wa_table \in [width : SeqsOf(RawWidths, 1, MaxCols), total_width : TotalWidths]
    /\ wa_backend = "none"
    /\ wa_result = Widths(<<>>)

WidthIdle ==
    /\ wa_pc = "idle"
    /\ wa_table = [width |-> <<>>, total_width |-> ROne]
    /\ wa_backend = "none"
    /\ wa_result = Widths(<<>>)

render_table_latex_widths ==
    /\ wa_pc = "ready"
    /\ wa_pc' = "done"
    /\ wa_backend' = "latex"
    /\ wa_result' = ResolveWidths(wa_table.width, wa_table.total_width)
    /\ UNCHANGED wa_table

render_table_odt_widths ==
    /\ wa_pc = "ready"
    /\ wa_pc' = "done"
    /\ wa_backend' = "odt"
    /\ wa_result' = ResolveWidths(wa_table.width, wa_table.total_width)
    /\ UNCHANGED wa_table

----------------------------------------------------------------------------
(* table.py: the underline rules of a row in render_table_latex *)

MaxColCnt == 4
MaxUnderlines == 2

\* lt.add_hline(): a rule across the whole table
FullRule == [full |-> TRUE, start |-> 0, end |-> 0, cmidruleoption |-> ""]

\* lt.add_hline(start=, end=, cmidruleoption=)
PartialRule(start, end, side) ==
    [full |-> FALSE, start |-> start, end |-> end, cmidruleoption |-> side]

\* Mutant of CmidruleOption: the two one-sided trims are swapped
CmidruleOptionSwapped(start, stop, col_cnt) ==
    IF start > 1 /\ stop < col_cnt THEN "rl"
    ELSE IF start > 1 THEN "r"
    ELSE "l"

\* side (table.py:426-431)
CmidruleOption(start, stop, col_cnt) ==
    IF start > 1 /\ stop < col_cnt THEN "rl"
    ELSE IF start > 1 THEN "l"
    ELSE "r"

\* The add_hline call made for one underline (table.py:421-437)
HlineFor(start, stop, col_cnt) ==
    IF start = 1 /\ stop = col_cnt
    THEN FullRule
    ELSE PartialRule(start, stop, CmidruleOption(start, stop, col_cnt))

UnderlineInit ==
    /\ ul_pc = "row"
    /\ ul_col_cnt \in 1..MaxColCnt
    /\ ul_underline = <<0, 0>>
    /\ ul_hlines = <<>>

UnderlineIdle ==
    /\ ul_pc = "idle"
    /\ ul_col_cnt = 0
    /\ ul_underline = <<0, 0>>
    /\ ul_hlines = <<>>

\* One iteration of `for underline in row.underlines`; the ranges come from
\* the row's 'underlines' attribute, which nothing confines to 1..col_cnt.
render_table_latex_underline(start, stop) ==
    /\ ul_pc = "row"
    /\ Len(ul_hlines) < MaxUnderlines
    /\ ul_underline' = <<start, stop>>
    /\ ul_hlines' = Append(ul_hlines, HlineFor(start, stop, ul_col_cnt))
    /\ UNCHANGED <<ul_pc, ul_col_cnt>>


----------------------------------------------------------------------------
(* _latex_column_definitions.py: values, classes and construction *)

\* Python values, tagged with their type
NoneV == [t |-> "None"]

BoolV(b) == [t |-> "bool", v |-> b]

IntV(n) == [t |-> "int", v |-> n]

FloatV(q) == [t |-> "float", v |-> q]

StrV(str) == [t |-> "str", v |-> str]

\* a column specifier, by identity
RefV(id) == [t |-> "ref", v |-> id]

\* a list of column specifiers
ListV(ids) == [t |-> "list", v |-> ids]

\* an attribute that was never set (reading it raises AttributeError)
Unset == [t |-> "unset"]

\* a list of floats
FloatsV(ws) == [t |-> "floats", v |-> ws]

\* dict.update on an ordered dict held as a sequence of <<key, value>>
RECURSIVE DictSet(_, _, _)
DictSet(d, k, val) ==
    IF d = <<>> THEN <<<<k, val>>>>
    ELSE IF Head(d)[1] = k THEN <<<<k, val>>>> \o Tail(d)
    ELSE <<Head(d)>> \o DictSet(Tail(d), k, val)

RECURSIVE DictUpdate(_, _)
DictUpdate(d, e) ==
    IF e = <<>> THEN d
    ELSE DictUpdate(DictSet(d, Head(e)[1], Head(e)[2]), Tail(e))

DictKeys(d) == {d[i][1] : i \in DOMAIN d}

\* the identifiers the module registers (for identifier in "lrc", "pmb", S, X)
SimpleColumns == {"l", "r", "c"}

ParagraphColumns == {"p", "m", "b"}

ColumnClasses == SimpleColumns \cup ParagraphColumns \cup {"S", "X"}

\* The object SColumn's class body creates once for its default
\* multicolumn_definitions: _column_definition_classes["l"]() (line 336)
SDefault == 1

\* BaseColumnDefinition.optional_options (lines 115-116)
BaseOptionalOptions ==
    << <<"multicolumn_definitions", NoneV>>, <<"no_space_after", NoneV>>,
       <<"space_after", NoneV>> >>

\* _WithOptionString._optional_options (line 192)
WithOptionStringOptions ==
    << <<"baselineskip", StrV("10pt")>>, <<"raggedright", BoolV(FALSE)>> >>

\* attrs["required_options"] of a class (lines 48, 237, 332)
required_options(cls) == IF cls \in ParagraphColumns THEN <<"width">> ELSE <<>>

\* The optional_options the metaclass merges for a class: the bases in
\* reverse order, each base's optional_options then _optional_options, then
\* the class's own (lines 35-50)
optional_options(cls) ==
    IF cls \in SimpleColumns THEN BaseOptionalOptions
    ELSE IF cls \in ParagraphColumns
    THEN DictUpdate(DictUpdate(WithOptionStringOptions, BaseOptionalOptions),
                    << <<"indent_fraction", FloatV(Rat(1, 10))>>,
                       <<"multicolumn_definitions", NoneV>> >>)
    ELSE IF cls = "S"
    THEN DictUpdate(BaseOptionalOptions,
                    << <<"table_format", StrV("3.2")>>,
                       <<"add_integer_zero", NoneV>>,
                       <<"multicolumn_definitions", RefV(SDefault)>>,
                       <<"table_column_width", NoneV>>,
                       <<"table_number_alignment", NoneV>>,
                       <<"retain_explicit_plus", NoneV>>,
                       <<"detect_inline_weight", StrV("math")>> >>)
    ELSE DictUpdate(WithOptionStringOptions, BaseOptionalOptions)

\* float(str): the strings of the model that are float literals
IsFloatLiteral(str) == str \in {"0.3"}

FloatOfStr(str) == Rat(3, 10)

\* ParagraphColumn.width setter (lines 265-273): float(width), on ValueError
\* str(width); a TypeError of float() is not caught
WidthSetter(width) ==
    IF width.t = "float" THEN [exc |-> "none", value |-> width]
    ELSE IF width.t = "int"
    THEN [exc |-> "none", value |-> FloatV(Rat(width.v, 1))]
    ELSE IF width.t = "bool"
    THEN [exc |-> "none", value |-> FloatV(IF width.v THEN ROne ELSE RZero)]
    ELSE IF width.t = "str"
    THEN [exc |-> "none",
          value |-> IF IsFloatLiteral(width.v) THEN FloatV(FloatOfStr(width.v))
                    ELSE width]
    ELSE [exc |-> "TypeError", value |-> NoneV]

\* setattr(self, option, value): only width has a converting setter
SetAttr(cls, option, value) ==
    IF option = "width" /\ cls \in ParagraphColumns THEN WidthSetter(value)
    ELSE [exc |-> "none", value |-> value]

\* kwargs without one key
KwPop(kwargs, key) == [k \in (DOMAIN kwargs) \ {key} |-> kwargs[k]]

\* Mutant of PopOptional: the declared default is dropped
PopOptionalNoDefault(kwargs, option, default) ==
    IF option \in DOMAIN kwargs THEN kwargs[option] ELSE NoneV

\* value = kwargs.pop(option, default) (line 95)
PopOptional(kwargs, option, default) ==
    IF option \in DOMAIN kwargs THEN kwargs[option] ELSE default

\* setattr(self, option, value) on the state of __init__: st holds args,
\* kwargs and the option values set so far; set is what the setter made
SetOption(st, option, set) ==
    [st EXCEPT !.exc = set.exc,
               !.kwargs = KwPop(st.kwargs, option),
               !.opts = DictSet(st.opts, option, set.value)]

\* value = args.pop(0) (line 88)
ArgsPopped(st) == [st EXCEPT !.args = Tail(st.args)]

\* for option in required_options (lines 83-92)
RECURSIVE BindRequired(_, _, _)
BindRequired(cls, req, st) ==
    IF req = <<>> \/ st.exc # "none" THEN st
    ELSE IF Head(req) \in DOMAIN st.kwargs
    THEN BindRequired(cls, Tail(req),
             SetOption(st, Head(req), SetAttr(cls, Head(req), st.kwargs[Head(req)])))
    ELSE IF st.args = <<>>
    THEN [st EXCEPT !.exc = "ValueError"]
    ELSE BindRequired(cls, Tail(req),
             SetOption(ArgsPopped(st), Head(req), SetAttr(cls, Head(req), Head(st.args))))

\* for option, default in optional_options.items() (lines 94-96)
RECURSIVE BindOptional(_, _, _)
BindOptional(cls, opt, st) ==
    IF opt = <<>> \/ st.exc # "none" THEN st
    ELSE BindOptional(cls, Tail(opt),
             SetOption(st, Head(opt)[1],
                 SetAttr(cls, Head(opt)[1],
                         PopOptional(st.kwargs, Head(opt)[1], Head(opt)[2]))))

\* the option values of an ordered dict as a function of the option name
OptsOf(d) == [k \in DictKeys(d) |-> d[CHOOSE i \in DOMAIN d : d[i][1] = k][2]]

\* A specifier object: its options, the internal_options (line 121) and
\* ParagraphColumn's two extra slots (line 239), unset until assigned
NewObject(cls, opts) ==
    [identifier |-> cls, opts |-> opts,
     no_left_padding |-> FALSE, no_right_padding |-> FALSE,
     widths_of_indents |-> Unset, p_identifier |-> Unset]

\* The end of __init__ (lines 98-103): no class defines an __init__ of its
\* own, so what is left of args and kwargs is an error
Constructed(cls, st) ==
    IF st.exc # "none" THEN [exc |-> st.exc, obj |-> NoneV]
    ELSE IF st.args # <<>> \/ DOMAIN st.kwargs # {}
    THEN [exc |-> "ValueError", obj |-> NoneV]
    ELSE [exc |-> "none", obj |-> NewObject(cls, OptsOf(st.opts))]

\* _MetaDefinition's generated __init__ (lines 77-103)
Construct(cls, args, kwargs) ==
    Constructed(cls,
        BindOptional(cls, optional_options(cls),
            BindRequired(cls, required_options(cls),
                [exc |-> "none", args |-> args, kwargs |-> kwargs, opts |-> <<>>])))

\* The module as imported: the heap holds the l column SColumn shares
ImportedHeap == <<Construct("l", <<>>, <<>>).obj>>

NoCall == [op |-> "none"]

ColumnInit ==
    /\ heap = ImportedHeap
    /\ alignment = <<>>
    /\ cs_call = NoCall
    /\ cs_result = [exc |-> "none", value |-> NoneV]

ColumnIdle == ColumnInit


----------------------------------------------------------------------------
(* _latex_column_definitions.py: column specifiers from parse results *)

\* The items of _parsers.py: KeyValuePair, Token and List (lines 10-12)
KeyValuePair(key, value) == [kind |-> "KeyValuePair", key |-> key, value |-> value]

Token(token) == [kind |-> "Token", token |-> token]

List(list) == [t |-> "List", v |-> list]

\* One parsed column definition, Group(identifier + Optional('[' options ']'))
\* (_parsers.py lines 75-78), with its "required" and "optional" results
Definition(identifier, required, optional) ==
    [identifier |-> identifier, required |-> required, optional |-> optional]

\* a parsed column definition used as a value (a pp.ParseResults)
ParseResults(definition) == [t |-> "ParseResults", v |-> definition]

\* ignore_errors=None, the default of _column_specifier_from_one_result and
\* what a call without the argument passes (line 408)
IgnoreErrorsDefault == FALSE

\* Each of these returns [exc, heap, ...]: the objects created are appended
\* to the heap; a raise leaves no object behind.
RECURSIVE column_specifier_from_one_result(_, _, _)
RECURSIVE column_specifiers_from_results(_, _, _)
RECURSIVE process_optional(_, _, _)

\* list(...) of the specifiers made from a List value (line 384)
ListResult(r) == [exc |-> r.exc, heap |-> r.heap, value |-> ListV(r.ids)]

\* the specifier made from a nested definition (line 387)
RefResult(r) == [exc |-> r.exc, heap |-> r.heap, value |-> RefV(r.id)]

\* _process_value (lines 382-389)
process_value(h, value) ==
    IF value.t = "List"
    THEN ListResult(column_specifiers_from_results(h, value.v, IgnoreErrorsDefault))
    ELSE IF value.t = "ParseResults"
    THEN RefResult(column_specifier_from_one_result(h, value.v, IgnoreErrorsDefault))
    ELSE [exc |-> "none", heap |-> h, value |-> value]

\* One (o.key, _process_value(o.value)) item (line 417), pv being the
\* processed value, and then the items after it
process_optional_item(h, optional, kwargs, pv) ==
    IF pv.exc # "none"
    THEN [exc |-> pv.exc, heap |-> h, kwargs |-> <<>>]
    ELSE process_optional(pv.heap, Tail(optional),
                          (Head(optional).key :> pv.value) @@ kwargs)

\* optional = dict(...) (lines 416-421): a later item of a key replaces an
\* earlier one; a token is the keyword set to True
process_optional(h, optional, kwargs) ==
    IF optional = <<>> THEN [exc |-> "none", heap |-> h, kwargs |-> kwargs]
    ELSE IF Head(optional).kind = "KeyValuePair"
    THEN process_optional_item(h, optional, kwargs,
                               process_value(h, Head(optional).value))
    ELSE process_optional(h, Tail(optional),
                          (Head(optional).token :> BoolV(TRUE)) @@ kwargs)

\* raise ValueError(...) (lines 430 and 441)
RaiseValueError(h) == [exc |-> "ValueError", heap |-> h, id |-> 0]

\* the specifier returned (line 445), a new object on the heap
NewSpecifier(h, obj) == [exc |-> "none", heap |-> Append(h, obj), id |-> Len(h) + 1]

\* try: column_specifier_class(*required, **optional) (lines 434-443), made
\* being what the constructor did and h2 the heap it ran on
from_one_result_made(h, h2, ignore_errors, made) ==
    IF made.exc = "none" THEN NewSpecifier(h2, made.obj)
    ELSE IF ~ignore_errors THEN RaiseValueError(h)
    ELSE NewSpecifier(h2, Construct("l", <<>>, <<>>).obj)

\* try: _column_definition_classes[identifier] (lines 423-432), po being the
\* processed optional items
from_one_result_class(h, result, ignore_errors, po) ==
    IF po.exc # "none" THEN RaiseValueError(h)
    ELSE IF result.identifier \notin ColumnClasses /\ ~ignore_errors
    THEN RaiseValueError(h)
    ELSE from_one_result_made(h, po.heap, ignore_errors,
             Construct(IF result.identifier \in ColumnClasses
                       THEN result.identifier ELSE "l",
                       result.required, po.kwargs))

\* _column_specifier_from_one_result (lines 408-445)
column_specifier_from_one_result(h, result, ignore_errors) ==
    from_one_result_class(h, result, ignore_errors,
                          process_optional(h, result.optional, <<>>))

RECURSIVE from_results_loop(_, _, _)

\* the rest of the loop after one result gave r
from_results_next(h, results, ids, r) ==
    IF r.exc # "none" THEN [exc |-> r.exc, heap |-> h, ids |-> <<>>]
    ELSE from_results_loop(r.heap, Tail(results), Append(ids, r.id))

\* for result in results: yield ... (lines 404-405): the ignore_errors
\* received is not handed to _column_specifier_from_one_result
from_results_loop(h, results, ids) ==
    IF results = <<>> THEN [exc |-> "none", heap |-> h, ids |-> ids]
    ELSE from_results_next(h, results, ids,
             column_specifier_from_one_result(h, Head(results),
                                              IgnoreErrorsDefault))

\* a raise while iterating leaves the heap as it was
LoopResult(h, r) ==
    IF r.exc # "none" THEN [exc |-> r.exc, heap |-> h, ids |-> <<>>] ELSE r

\* _column_specifiers_from_results (lines 403-405), iterated to the end
column_specifiers_from_results(h, results, ignore_errors) ==
    LoopResult(h, from_results_loop(h, results, <<>>))

\* list(column_specifiers_from_string(string, ignore_errors)) (lines 448-452)
\* for a string that column_definitions.parseString turns into 'results'
column_specifiers_from_string_list(h, results, ignore_errors) ==
    column_specifiers_from_results(h, results, ignore_errors)

\* Bounds of the calls explored
MaxArgs == 2

MaxResults == 2

\* Positional values handed to a constructor
ArgValues == {FloatV(Rat(2, 5)), StrV("3cm"), StrV("abc"), NoneV}

\* Keyword arguments handed to a constructor
KwargsOver(names) ==
    [k \in names |->
        IF k = "width" THEN StrV("0.3")
        ELSE IF k = "indent_fraction" THEN FloatV(Rat(1, 2))
        ELSE BoolV(TRUE)]

KwargNames == {"width", "indent_fraction", "foo"}

ConstructClasses == {"l", "p", "S", "X"}

\* The parsed definitions of: l  z  p  p[0.4]  p[0.4,indent_fraction=0.5]
\* p[l]  S  l[foo]  p[0.4,multicolumn_definitions=l]
ParsedL == Definition("l", <<>>, <<>>)

ParsedDefinitions ==
    { ParsedL,
      Definition("z", <<>>, <<>>),
      Definition("p", <<>>, <<>>),
      Definition("p", <<FloatV(Rat(2, 5))>>, <<>>),
      Definition("p", <<FloatV(Rat(2, 5))>>,
                 <<KeyValuePair("indent_fraction", FloatV(Rat(1, 2)))>>),
      Definition("p", <<ParseResults(ParsedL)>>, <<>>),
      Definition("S", <<>>, <<>>),
      Definition("l", <<>>, <<Token("foo")>>),
      Definition("p", <<FloatV(Rat(2, 5))>>,
                 <<KeyValuePair("multicolumn_definitions", ParseResults(ParsedL))>>) }

\* A constructor call, column_specifier_class(*args, **kwargs), the first
\* call made after the import
construct(cls, args, kwargs) ==
    /\ cs_call = NoCall
    /\ cs_call' = [op |-> "construct", cls |-> cls, args |-> args,
                   kwargs |-> kwargs]
    /\ \E made \in {Construct(cls, args, kwargs)} :
           IF made.exc = "none"
           THEN /\ heap' = Append(heap, made.obj)
                /\ cs_result' = [exc |-> "none", value |-> RefV(Len(heap) + 1)]
           ELSE /\ heap' = heap
                /\ cs_result' = [exc |-> made.exc, value |-> NoneV]
    /\ UNCHANGED alignment

\* list(column_specifiers_from_string(string, ignore_errors)), the first call
\* made after the import
column_specifiers_from_string(results, ignore_errors) ==
    /\ cs_call = NoCall
    /\ cs_call' = [op |-> "column_specifiers_from_string",
                   results |-> results, ignore_errors |-> ignore_errors]
    /\ \E r \in {column_specifiers_from_string_list(heap, results, ignore_errors)} :
           /\ heap' = r.heap
           /\ cs_result' = [exc |-> r.exc,
                            value |-> IF r.exc = "none" THEN ListV(r.ids) ELSE NoneV]
    /\ UNCHANGED alignment

----------------------------------------------------------------------------
(* _latex_column_definitions.py: indent and get_n_definition; figure.py: the
   alignment of a multicolumn cell in format_row *)

MaxObjects == 5

MaxIndent == 2

IsParagraph(obj) == obj.identifier \in ParagraphColumns

\* copy.copy(h[id]): a new object with the same attribute values
copy_copy(h, id) == [heap |-> Append(h, h[id]), id |-> Len(h) + 1]

\* copy.deepcopy(h[id]): the specifiers its multicolumn_definitions refers to
\* are copied too
RECURSIVE deepcopy(_, _)
RECURSIVE deepcopy_list(_, _, _)

\* the copy of h[id] whose multicolumn_definitions is the copy c
CopiedWithRef(h, id, c) ==
    [heap |-> Append(c.heap,
                     [h[id] EXCEPT !.opts.multicolumn_definitions = RefV(c.id)]),
     id |-> Len(c.heap) + 1]

\* the copy of h[id] whose multicolumn_definitions is the list of copies c
CopiedWithList(h, id, c) ==
    [heap |-> Append(c.heap,
                     [h[id] EXCEPT !.opts.multicolumn_definitions = ListV(c.ids)]),
     id |-> Len(c.heap) + 1]

deepcopy(h, id) ==
    IF h[id].opts.multicolumn_definitions.t = "ref"
    THEN CopiedWithRef(h, id, deepcopy(h, h[id].opts.multicolumn_definitions.v))
    ELSE IF h[id].opts.multicolumn_definitions.t = "list"
    THEN CopiedWithList(h, id,
             deepcopy_list(h, h[id].opts.multicolumn_definitions.v, <<>>))
    ELSE [heap |-> Append(h, h[id]), id |-> Len(h) + 1]

\* the items after the copy c of the first one
deepcopy_list_next(ids, done, c) ==
    deepcopy_list(c.heap, Tail(ids), Append(done, c.id))

deepcopy_list(h, ids, done) ==
    IF ids = <<>> THEN [heap |-> h, ids |-> done]
    ELSE deepcopy_list_next(ids, done, deepcopy(h, Head(ids)))

RECURSIVE deepcopies(_, _, _, _)

\* the copies after the copy c
deepcopies_next(id, num, done, c) ==
    deepcopies(c.heap, id, num - 1, Append(done, c.id))

\* [copy.deepcopy(self) for __ in range(num)]
deepcopies(h, id, num, done) ==
    IF num = 0 THEN [heap |-> h, ids |-> done]
    ELSE deepcopies_next(id, num, done, deepcopy(h, id))

\* [self] + the copies c (line 158)
SelfAndCopies(id, c) == [exc |-> "none", heap |-> c.heap, ids |-> <<id>> \o c.ids]

\* BaseColumnDefinition.indent (lines 154-158)
BaseIndent(h, id, num) ==
    IF num = 0 THEN [exc |-> "none", heap |-> h, ids |-> <<id>>]
    ELSE SelfAndCopies(id, deepcopies(h, id, num, <<>>))

\* total_width after num times total_width -= new_width (lines 294-296)
RECURSIVE RemainingWidth(_, _, _)
RemainingWidth(total_width, step, num) ==
    IF num = 0 THEN total_width
    ELSE RemainingWidth(RSub(total_width, step), step, num - 1)

\* width_ = max(step, total_width) (line 308)
LastWidth(step, total_width) == RMax(step, total_width)

\* widths_of_indents at the end of indent (lines 297, 315)
WidthsOfIndents(num, step, last) ==
    [j \in 1..(num + 1) |-> IF j <= num THEN step ELSE last]

\* The loop's new columns and self after indent (lines 302-317): c holds
\* the deep copies, step is the width of each and last the width self gets
IndentedColumns(id, num, step, last, c) ==
    [exc |-> "none",
     heap |-> [o \in DOMAIN c.heap |->
         IF o \in {c.ids[j] : j \in DOMAIN c.ids}
         THEN [c.heap[o] EXCEPT
                  !.opts.width = FloatV(step),
                  !.widths_of_indents = FloatsV(WidthsOfIndents(num, step, last)),
                  !.opts.no_space_after = BoolV(TRUE)]
         ELSE IF o = id
         THEN [c.heap[o] EXCEPT
                  !.opts.width = FloatV(last),
                  !.widths_of_indents = FloatsV(WidthsOfIndents(num, step, last))]
         ELSE c.heap[o]],
     ids |-> Append(c.ids, id)]

\* indent for a float width_ once step is known (lines 288-308)
ParagraphSteps(h, id, num, width_, step) ==
    IndentedColumns(id, num, step,
                      LastWidth(step, RemainingWidth(width_, step, num)),
                      deepcopies(h, id, num, <<>>))

\* ParagraphColumn.indent (lines 275-319). A string width ("3cm") gets its
\* unit from get_num_unit, and formatting the float new_width with ".2d"
\* raises ValueError in the first pass of the loop, before self is touched.
\* The indent_fraction values of the model are floats.
ParagraphIndent(h, id, num) ==
    IF num = 0 THEN [exc |-> "none", heap |-> h, ids |-> <<id>>]
    ELSE IF h[id].opts.width.t = "str"
    THEN [exc |-> "ValueError", heap |-> h, ids |-> <<>>]
    ELSE IF h[id].opts.indent_fraction.t # "float"
    THEN [exc |-> "TypeError", heap |-> h, ids |-> <<>>]
    ELSE ParagraphSteps(h, id, num, h[id].opts.width.v,
                        RMul(h[id].opts.width.v, h[id].opts.indent_fraction.v))

Indent(h, id, num) ==
    IF IsParagraph(h[id]) THEN ParagraphIndent(h, id, num) ELSE BaseIndent(h, id, num)

\* Mutant of Subscript: a missing entry falls back to the last one
SubscriptOrLast(h, m, n) ==
    IF m.t = "list" /\ m.v # <<>>
    THEN [exc |-> "none", heap |-> h, id |-> m.v[Min(n + 1, Len(m.v))]]
    ELSE [exc |-> "TypeError", heap |-> h, id |-> 0]

\* self.multicolumn_definitions[n] (lines 130, 252) for n >= 0
Subscript(h, m, n) ==
    IF m.t = "list"
    THEN IF n + 1 \in DOMAIN m.v
         THEN [exc |-> "none", heap |-> h, id |-> m.v[n + 1]]
         ELSE [exc |-> "IndexError", heap |-> h, id |-> 0]
    ELSE [exc |-> "TypeError", heap |-> h, id |-> 0]

\* BaseColumnDefinition.get_n_definition (lines 123-130)
BaseGetNDefinition(h, id, n) ==
    IF h[id].opts.multicolumn_definitions.t = "None"
    THEN [exc |-> "none", heap |-> copy_copy(h, id).heap, id |-> copy_copy(h, id).id]
    ELSE IF h[id].opts.multicolumn_definitions.t = "ref"
    THEN [exc |-> "none", heap |-> h, id |-> h[id].opts.multicolumn_definitions.v]
    ELSE Subscript(h, h[id].opts.multicolumn_definitions, n)

\* Mutant of WidthsFrom: the slice [:n]
WidthsUpTo(widths, n) == SubSeq(widths, 1, Min(n, Len(widths)))

\* multicolumn._widths_of_indents[n:] (line 244) for n >= 0
WidthsFrom(widths, n) == SubSeq(widths, n + 1, Len(widths))

\* multicolumn after lines 243-245: a copy of self with the summed width
Multicolumn(self, n) ==
    [self EXCEPT !.opts.width = FloatV(RSum(WidthsFrom(self.widths_of_indents.v, n))),
                 !.p_identifier = StrV("p")]

\* ParagraphColumn.get_n_definition (lines 241-252)
ParagraphGetNDefinition(h, id, n) ==
    IF h[id].opts.multicolumn_definitions.t = "None"
    THEN IF h[id].widths_of_indents = Unset
         THEN [exc |-> "AttributeError", heap |-> h, id |-> 0]
         ELSE [exc |-> "none", heap |-> Append(h, Multicolumn(h[id], n)),
               id |-> Len(h) + 1]
    ELSE IF h[id].opts.multicolumn_definitions.t = "ref"
    THEN [exc |-> "none", heap |-> h, id |-> h[id].opts.multicolumn_definitions.v]
    ELSE Subscript(h, h[id].opts.multicolumn_definitions, n)

GetNDefinition(h, id, n) ==
    IF IsParagraph(h[id]) THEN ParagraphGetNDefinition(h, id, n)
    ELSE BaseGetNDefinition(h, id, n)

\* The definitions format_table's alignment string is parsed into here:
\* p[w], p[w,indent_fraction=f], p['3cm'], S, p[0.4,multicolumn_definitions=l]
IndentWidths == {Rat(2, 5)}

IndentFractions == {Rat(1, 2)}

IndentDefinitions ==
    {Definition("p", <<FloatV(w)>>, <<>>) : w \in IndentWidths}
    \cup {Definition("p", <<FloatV(w)>>, <<KeyValuePair("indent_fraction", FloatV(f))>>) :
             w \in IndentWidths, f \in IndentFractions}
    \cup {Definition("p", <<StrV("3cm")>>, <<>>), Definition("S", <<>>, <<>>),
          Definition("p", <<FloatV(Rat(2, 5))>>,
                     <<KeyValuePair("multicolumn_definitions", ParseResults(ParsedL))>>)}

\* The state after format_table has parsed a one-column alignment string:
\* list(column_specifiers_from_string(alignment, ignore_errors=True))
\* (figure.py lines 626-628)
IndentInit ==
    \E d \in IndentDefinitions :
        \E r \in {column_specifiers_from_string_list(ImportedHeap, <<d>>, TRUE)} :
            /\ heap = r.heap
            /\ alignment = <<>>
            /\ cs_call = [op |-> "column_specifiers_from_string",
                          results |-> <<d>>, ignore_errors |-> TRUE]
            /\ cs_result = [exc |-> "none", value |-> ListV(r.ids)]

\* self.indent(num), as format_table calls it for a column (figure.py line
\* 630); the list returned becomes the row alignment. The call record keeps
\* what self was when the call was made.
indent(self, num) ==
    \E r \in {Indent(heap, self, num)} :
        /\ Len(r.heap) <= MaxObjects
        /\ cs_call' = [op |-> "indent", self |-> self, num |-> num,
                       before |-> heap[self]]
        /\ heap' = r.heap
        /\ cs_result' = [exc |-> r.exc,
                         value |-> IF r.exc = "none" THEN ListV(r.ids) ELSE NoneV]
        /\ alignment' = IF r.exc = "none" THEN r.ids ELSE alignment

\* self.get_n_definition(n)
get_n_definition(self, n) ==
    \E r \in {GetNDefinition(heap, self, n)} :
        /\ Len(r.heap) <= MaxObjects
        /\ cs_call' = [op |-> "get_n_definition", self |-> self, n |-> n]
        /\ heap' = r.heap
        /\ cs_result' = [exc |-> r.exc,
                         value |-> IF r.exc = "none" THEN RefV(r.id) ELSE NoneV]
        /\ UNCHANGED alignment

\* format_row's alignment of one multicolumn cell (figure.py lines 396-410)
\* in the column the row alignment was built for, so that from_ - 1 is
\* cell_indent: column_specifier is what the cell's directive names, None or
\* a parsed definition that _process_value constructs; first is i == 0,
\* at_edge is the right-edge test, leave is leave_table_padding == "true"
\* align = column_specifier or the row alignment's get_n_definition
\* (figure.py line 399), pv being the processed column_specifier
AlignOf(h, pv, anchor, cell_indent) ==
    IF pv.value.t = "ref"
    THEN [exc |-> "none", heap |-> pv.heap, id |-> pv.value.v]
    ELSE GetNDefinition(h, anchor, cell_indent)

\* the padding calls on the copy (figure.py lines 403-408)
Padded(obj, first, at_edge, leave) ==
    IF first /\ ~leave THEN [obj EXCEPT !.no_left_padding = TRUE]
    ELSE IF at_edge /\ ~leave THEN [obj EXCEPT !.no_right_padding = TRUE]
    ELSE obj

format_row_align(column_specifier, cell_indent, first, at_edge, leave) ==
    /\ cell_indent + 1 \in DOMAIN alignment
    /\ cs_call' = [op |-> "format_row_align",
                   column_specifier |-> column_specifier,
                   cell_indent |-> cell_indent,
                   first |-> first, at_edge |-> at_edge, leave |-> leave]
    /\ \E g \in {AlignOf(heap, process_value(heap, column_specifier),
                         alignment[cell_indent + 1], cell_indent)} :
           IF g.exc # "none"
           THEN /\ heap' = heap
                /\ cs_result' = [exc |-> g.exc, value |-> NoneV]
           ELSE /\ Len(g.heap) + 1 <= MaxObjects
                /\ heap' = Append(g.heap, Padded(g.heap[g.id], first, at_edge, leave))
                /\ cs_result' = [exc |-> "none", value |-> RefV(Len(g.heap) + 1)]
    /\ UNCHANGED alignment

----------------------------------------------------------------------------
(* _latex_column_definitions.py: options_from_string; figure.py: the cell
   options *)

MaxText == 3

MaxElems == 2

\* get(key, default) on a dict held as a function
DictGet(d, key, default) == IF key \in DOMAIN d THEN d[key] ELSE default

\* (aliases.get(key, key), value) for a token, tok being the token after
\* its alias (lines 395-400)
token_item(tok, aliases, tokens) ==
    IF tok \in DOMAIN tokens
    THEN <<DictGet(aliases, tokens[tok][1], tokens[tok][1]), tokens[tok][2]>>
    ELSE <<DictGet(aliases, tok, tok), BoolV(TRUE)>>

\* _process_token (lines 392-400)
process_token(token, aliases, tokens) ==
    token_item(DictGet(aliases, token, token), aliases, tokens)

RECURSIVE process_required(_, _, _)

\* the values after the processed value pv
process_required_next(h, required, done, pv) ==
    IF pv.exc # "none" THEN [exc |-> pv.exc, heap |-> h, values |-> <<>>]
    ELSE process_required(pv.heap, Tail(required), Append(done, pv.value))

\* required = [_process_value(v) for v in required] (line 467)
process_required(h, required, done) ==
    IF required = <<>> THEN [exc |-> "none", heap |-> h, values |-> done]
    ELSE process_required_next(h, required, done, process_value(h, Head(required)))

RECURSIVE process_named(_, _, _, _, _)

\* one (aliases.get(o.key, o.key), _process_value(o.value)) item (line 472),
\* pv being the processed value, and then the items after it
process_named_item(h, optional, aliases, tokens, named, pv) ==
    IF pv.exc # "none" THEN [exc |-> pv.exc, heap |-> h, named |-> <<>>]
    ELSE process_named(pv.heap, Tail(optional), aliases, tokens,
             (DictGet(aliases, Head(optional).key, Head(optional).key) :> pv.value)
                 @@ named)

\* Mutant of process_named_token: an earlier item of the key is kept
process_named_token_first(h, optional, aliases, tokens, named, kv) ==
    process_named(h, Tail(optional), aliases, tokens, named @@ (kv[1] :> kv[2]))

\* one _process_token item kv (line 474) and then the items after it
process_named_token(h, optional, aliases, tokens, named, kv) ==
    process_named(h, Tail(optional), aliases, tokens, (kv[1] :> kv[2]) @@ named)

\* optional = dict(...) (lines 471-476)
process_named(h, optional, aliases, tokens, named) ==
    IF optional = <<>> THEN [exc |-> "none", heap |-> h, named |-> named]
    ELSE IF Head(optional).kind = "KeyValuePair"
    THEN process_named_item(h, optional, aliases, tokens, named,
                            process_value(h, Head(optional).value))
    ELSE process_named_token(h, optional, aliases, tokens, named,
                             process_token(Head(optional).token, aliases, tokens))

\* for arg in required_arguments (lines 480-490); st holds the positional
\* values and named items still unused and got_options
RECURSIVE bind_arguments(_, _, _)
bind_arguments(required_arguments, optional_arguments, st) ==
    IF required_arguments = <<>> \/ st.exc # "none" THEN st
    ELSE LET arg == Head(required_arguments)
         IN  IF arg \in DOMAIN st.optional
             THEN bind_arguments(Tail(required_arguments), optional_arguments,
                      [st EXCEPT !.got_options = (arg :> st.optional[arg]) @@ @,
                                 !.optional = KwPop(@, arg)])
             ELSE IF st.required # <<>>
             THEN bind_arguments(Tail(required_arguments), optional_arguments,
                      [st EXCEPT !.got_options = (arg :> Head(st.required)) @@ @,
                                 !.required = Tail(@)])
             ELSE IF arg \notin DOMAIN optional_arguments
             THEN [st EXCEPT !.exc = "ValueError"]
             ELSE bind_arguments(Tail(required_arguments), optional_arguments, st)

\* got_options.update(optional) and the check of what is left of required
\* (lines 492-497), st being the state after the loop
got_options_of(h, h2, st) ==
    IF st.exc # "none" \/ st.required # <<>>
    THEN [exc |-> "ValueError", heap |-> h, options |-> <<>>]
    ELSE [exc |-> "none", heap |-> h2, options |-> st.optional @@ st.got_options]

\* lines 478-497, opt being the processed optional items
options_bound(h, required_arguments, optional_arguments, values, opt) ==
    IF opt.exc # "none" THEN [exc |-> "ValueError", heap |-> h, options |-> <<>>]
    ELSE got_options_of(h, opt.heap,
             bind_arguments(required_arguments, optional_arguments,
                 [exc |-> "none", required |-> values, optional |-> opt.named,
                  got_options |-> optional_arguments]))

\* lines 469-497, req being the processed required values
options_named(h, result, required_arguments, optional_arguments, aliases, tokens, req) ==
    IF req.exc # "none" THEN [exc |-> "ValueError", heap |-> h, options |-> <<>>]
    ELSE options_bound(h, required_arguments, optional_arguments, req.values,
             process_named(req.heap, result.optional, aliases, tokens, <<>>))

\* options_from_string (lines 455-497) for a string that options.parseString
\* turns into 'result'; the aliases of the model have two characters or more
options_from_string(h, result, required_arguments, optional_arguments, aliases, tokens) ==
    options_named(h, result, required_arguments, optional_arguments, aliases, tokens,
                  process_required(h, result.required, <<>>))


\* Texts are sequences of characters: those over the characters the option
\* strings are made of, and the text "fm"
Chars == {"_", ">", "2", "0", " "}

Texts == SeqsOf(Chars, 0, MaxText) \cup {<<"f", "m">>}

DigitValue ==
    [c \in {"0", "1", "2", "3", "4", "5", "6", "7", "8", "9"} |->
        CASE c = "0" -> 0 [] c = "1" -> 1 [] c = "2" -> 2 [] c = "3" -> 3
          [] c = "4" -> 4 [] c = "5" -> 5 [] c = "6" -> 6 [] c = "7" -> 7
          [] c = "8" -> 8 [] c = "9" -> 9]

\* int(text) for a text of digits
RECURSIVE IntOf(_)
IntOf(text) ==
    IF text = <<>> THEN 0
    ELSE 10 * IntOf(SubSeq(text, 1, Len(text) - 1)) + DigitValue[text[Len(text)]]

\* str.strip()
RECURSIVE Strip(_)
Strip(text) ==
    IF text = <<>> THEN text
    ELSE IF Head(text) = " " THEN Strip(Tail(text))
    ELSE IF text[Len(text)] = " " THEN Strip(SubSeq(text, 1, Len(text) - 1))
    ELSE text

\* [1-9][0-9]?
IsWidthDigits(text) ==
    /\ Len(text) \in {1, 2}
    /\ text[1] \in (DOMAIN DigitValue) \ {"0"}
    /\ Len(text) = 2 => text[2] \in DOMAIN DigitValue

\* (?P<group>(?P<group_width>[1-9][0-9]?)?mark)? matching the whole of part
IsOptionGroup(part, mark) ==
    \/ part = <<>>
    \/ /\ part[Len(part)] = mark
       /\ Len(part) = 1 \/ IsWidthDigits(SubSeq(part, 1, Len(part) - 1))

\* the groupdict of one group: None for a group that took no part in the match
GroupDict(part) ==
    [group |-> IF part = <<>> THEN NoneV ELSE StrV(part),
     width |-> IF Len(part) <= 1 THEN NoneV
               ELSE StrV(SubSeq(part, 1, Len(part) - 1))]

\* the groupdict of the match that splits text after i characters
MatchAt(text, i) ==
    [matched |-> TRUE,
     underline |-> GroupDict(SubSeq(text, 1, i)).group,
     underline_width |-> GroupDict(SubSeq(text, 1, i)).width,
     multicolumn |-> GroupDict(SubSeq(text, i + 1, Len(text))).group,
     multicolumn_width |-> GroupDict(SubSeq(text, i + 1, Len(text))).width]

\* the places where text splits into an underline group and a multicolumn
\* group, both optional
Splits(text) ==
    {i \in 0..Len(text) :
        /\ IsOptionGroup(SubSeq(text, 1, i), "_")
        /\ IsOptionGroup(SubSeq(text, i + 1, Len(text)), ">")}

\* the regular expression matched against the whole of text
Match(text, splits) ==
    IF splits = {} THEN [matched |-> FALSE]
    ELSE MatchAt(text, CHOOSE i \in splits : TRUE)

\* _CELL_OPTION_STRING.match(string_.strip()) (figure.py lines 268-274)
is_option_string(string_) == Match(Strip(string_), Splits(Strip(string_)))

\* Elements of a cell: Str(text), Space (which has no text) and
\* RawInline(format="multicolumn"), whose text is given by what
\* options.parseString makes of it
Str(text) == [tag |-> "Str", text |-> text]

Space == [tag |-> "Space"]

RawInline(result) == [tag |-> "RawInline", format |-> "multicolumn", result |-> result]

OptionsResult(required, optional) == [required |-> required, optional |-> optional]

\* The parsed directives: "fm"  "2"  "2,l"  "1,ul,mr"  "2,l,2"
Directives ==
    { OptionsResult(<<>>, <<Token("fm")>>),
      OptionsResult(<<IntV(2)>>, <<>>),
      OptionsResult(<<IntV(2), ParseResults(ParsedL)>>, <<>>),
      OptionsResult(<<IntV(1)>>, <<Token("ul"), Token("mr")>>),
      OptionsResult(<<IntV(2), ParseResults(ParsedL), IntV(2)>>, <<>>) }

Elements == {Str(text) : text \in Texts} \cup {Space}
                \cup {RawInline(result) : result \in Directives}

\* the arguments of the options_from_string call (figure.py lines 282-291)
CellRequiredArguments == <<"columns", "column_specifier">>

CellOptionalArguments ==
    [columns |-> IntV(1), column_specifier |-> NoneV, underline |-> NoneV,
     force_multicolumn |-> BoolV(FALSE)]

CellAliases == [ul |-> "underline", fm |-> "force_multicolumn", mr |-> "midrule"]

CellTokens == [midrule |-> <<"underline", StrV("midrule")>>]

\* doc.cell_options as get_cell_options sets it first (lines 325-330)
DefaultCellOptions ==
    [underline |-> NoneV, multicolumn |-> IntV(1), align |-> NoneV,
     force_multicolumn |-> BoolV(FALSE)]

\* multicolumn_width = groups.get("multicolumn_width") or 2, and the
\* underline's "or 1" (lines 309-317)
WidthOr(width, default) == IF width = NoneV THEN default ELSE IntOf(width.v)

\* Mutant of MulticolumnWidth: the digit widens the default of two columns
MulticolumnWidthWidened(groups) ==
    IF groups.multicolumn = NoneV THEN 1
    ELSE IF groups.multicolumn_width = NoneV THEN 2
    ELSE IntOf(groups.multicolumn_width.v) + 1

\* lines 305-310
MulticolumnWidth(groups) ==
    IF groups.multicolumn = NoneV THEN 1 ELSE WidthOr(groups.multicolumn_width, 2)

\* lines 312-317
UnderlineWidth(groups) ==
    IF groups.underline = NoneV THEN 0 ELSE WidthOr(groups.underline_width, 1)

CellOptionsInit ==
    /\ co_pc = "idle"
    /\ co_n = 0
    /\ co_elem = Space
    /\ co_removed = FALSE
    /\ doc_cell_options = DefaultCellOptions
    /\ co_result = NoneV

CellOptionsIdle == CellOptionsInit

\* get_cell_options up to cell.walk (lines 324-332)
get_cell_options_begin ==
    /\ co_pc = "idle"
    /\ co_pc' = "walk"
    /\ doc_cell_options' = DefaultCellOptions
    /\ UNCHANGED <<co_n, co_elem, co_removed, co_result, heap>>

\* _get_cell_options(elem, doc) (lines 280-321), called by the walk for the
\* next element of the cell
get_cell_options_elem(elem) ==
    /\ co_pc = "walk"
    /\ co_n < MaxElems
    /\ co_n' = co_n + 1
    /\ co_elem' = elem
    /\ UNCHANGED co_result
    /\ IF elem.tag = "RawInline"
       THEN \E options \in {options_from_string(heap, elem.result,
                                CellRequiredArguments, CellOptionalArguments,
                                CellAliases, CellTokens)} :
                IF options.exc # "none"
                THEN /\ co_pc' = "raised"
                     /\ UNCHANGED <<doc_cell_options, co_removed, heap>>
                ELSE /\ co_pc' = "walk"
                     /\ heap' = options.heap
                     /\ co_removed' = TRUE
                     /\ doc_cell_options' =
                            [underline |-> options.options["underline"],
                             multicolumn |-> options.options["columns"],
                             align |-> options.options["column_specifier"],
                             force_multicolumn |-> options.options["force_multicolumn"]]
       ELSE /\ co_pc' = "walk"
            /\ UNCHANGED heap
            /\ \E groups \in {IF elem.tag = "Str" THEN is_option_string(elem.text)
                              ELSE [matched |-> FALSE]} :
                   IF groups.matched
                   THEN /\ co_removed' = TRUE
                        /\ doc_cell_options' =
                               [doc_cell_options EXCEPT
                                   !.multicolumn = IntV(MulticolumnWidth(groups)),
                                   !.underline = IntV(UnderlineWidth(groups))]
                   ELSE /\ co_removed' = FALSE
                        /\ UNCHANGED doc_cell_options

\* underline, multicolumn, align, force_multicolumn =
\* doc.cell_options.values() (lines 334-336)
get_cell_options_return ==
    /\ co_pc = "walk"
    /\ co_pc' = "returned"
    /\ co_result' = <<doc_cell_options.underline, doc_cell_options.multicolumn,
                      doc_cell_options.align, doc_cell_options.force_multicolumn>>
    /\ UNCHANGED <<co_n, co_elem, co_removed, doc_cell_options, heap>>


\* The two ways the repository calls options_from_string: the example under
\* __main__ (lines 501-508) and _get_cell_options (figure.py lines 282-291)
MainExampleCall ==
    [required_arguments |-> <<"columns", "column_specifier">>,
     optional_arguments |-> <<>>,
     aliases |-> [ul |-> "underline"],
     tokens |-> [mr |-> <<"underline", StrV("midrule")>>]]

CellCall ==
    [required_arguments |-> CellRequiredArguments,
     optional_arguments |-> CellOptionalArguments,
     aliases |-> CellAliases,
     tokens |-> CellTokens]

OptionsCalls == {MainExampleCall, CellCall}

MaxNamed == 3

\* The parsed p[0.2]
ParsedP02 == Definition("p", <<FloatV(Rat(1, 5))>>, <<>>)

\* What options.parseString makes of the positional part: ""  "1"  "1,p[0.2]"
RequiredParts == {<<>>, <<IntV(1)>>, <<IntV(1), ParseResults(ParsedP02)>>}

\* The named items: ul  mr  underline  fm  underline=2  ul=3
NamedItems ==
    {Token("ul"), Token("mr"), Token("underline"), Token("fm"),
     KeyValuePair("underline", IntV(2)), KeyValuePair("ul", IntV(3))}

\* options_from_string(string, required_arguments, **optional_arguments), the
\* first call made after the import
options_from_string_call(result, call) ==
    /\ cs_call = NoCall
    /\ cs_call' = [op |-> "options_from_string", result |-> result, call |-> call]
    /\ \E r \in {options_from_string(heap, result, call.required_arguments,
                                     call.optional_arguments, call.aliases,
                                     call.tokens)} :
           /\ heap' = r.heap
           /\ cs_result' = [exc |-> r.exc,
                            value |-> IF r.exc = "none" THEN r.options ELSE NoneV]
    /\ UNCHANGED alignment


\* Alignment strings whose column has a multicolumn_definitions override, and
\* one without: S  l[multicolumn_definitions=r]  l[multicolumn_definitions=[l]]
\* p[0.4,multicolumn_definitions=l]  p[0.4,multicolumn_definitions=[l,r]]  p[0.4]
OverrideDefinitions ==
    {Definition("S", <<>>, <<>>),
     Definition("l", <<>>, <<KeyValuePair("multicolumn_definitions",
                                          ParseResults(Definition("r", <<>>, <<>>)))>>),
     Definition("l", <<>>, <<KeyValuePair("multicolumn_definitions",
                                          List(<<ParsedL>>))>>),
     Definition("p", <<FloatV(Rat(2, 5))>>,
                <<KeyValuePair("multicolumn_definitions", ParseResults(ParsedL))>>),
     Definition("p", <<FloatV(Rat(2, 5))>>,
                <<KeyValuePair("multicolumn_definitions",
                               List(<<ParsedL, Definition("r", <<>>, <<>>)>>))>>),
     Definition("p", <<FloatV(Rat(2, 5))>>, <<>>)}

\* The state after format_table has parsed such an alignment string
OverrideInit ==
    \E d \in OverrideDefinitions :
        \E r \in {column_specifiers_from_string_list(ImportedHeap, <<d>>, TRUE)} :
            /\ heap = r.heap
            /\ alignment = <<>>
            /\ cs_call = [op |-> "column_specifiers_from_string",
                          results |-> <<d>>, ignore_errors |-> TRUE]
            /\ cs_result = [exc |-> "none", value |-> ListV(r.ids)]


----------------------------------------------------------------------------
(* utils.py: count_elements and get_elem_count *)

MaxWalk == 3

\* Elements of the document: a Table, Headers (the only ones with a level
\* attribute) and a Para
TableElem == [tag |-> "Table"]

HeaderElem(level) == [tag |-> "Header", level |-> level]

ParaElem == [tag |-> "Para"]

HeaderLevels == {1, 2}

WalkedElements == {TableElem, ParaElem} \cup {HeaderElem(l) : l \in HeaderLevels}

\* _get_type_name_checker (lines 338-363) for relevant_elems a type, given
\* here by its __name__: the checker is isinstance, type_name the __name__
checker(relevant_elems, elem) == elem.tag = relevant_elems

\* register = "default" when it is None (lines 401-402, 469-470)
RegisterName(register) == IF register = NoneV THEN "default" ELSE register.v

\* [tuple(), 0]: elem_counter[0] is the scope, the rest are the counts
NewCounter == [scope |-> <<>>, counts |-> <<0>>]

Zeros(n) == [i \in 1..n |-> 0]

Ones(n) == [i \in 1..n |-> 1]

\* doc.count_elems once register has a counter for type_name: the except
\* branches of lines 412-425 and 487-495
WithCounter(ce, register, type_name) ==
    IF ce = Unset THEN (register :> (type_name :> NewCounter))
    ELSE IF register \notin DOMAIN ce
    THEN (register :> (type_name :> NewCounter)) @@ ce
    ELSE IF type_name \notin DOMAIN ce[register]
    THEN [ce EXCEPT ![register] = (type_name :> NewCounter) @@ @]
    ELSE ce

\* tuple(elem_counter[1 : level + 1]) padded with ones (lines 477-484)
CurrentLevel(counts, level) ==
    SubSeq(counts, 1, Min(level, Len(counts)))
        \o Ones(level - Min(level, Len(counts)))

\* get_elem_count (lines 453-496); a doc without count_elems raises the
\* AttributeError that only count_elements catches
GetElemCount(ce, relevant_elems, level, register) ==
    IF ce = Unset THEN [exc |-> "AttributeError", ce |-> ce, value |-> NoneV]
    ELSE IF /\ RegisterName(register) \in DOMAIN ce
            /\ relevant_elems \in DOMAIN ce[RegisterName(register)]
    THEN [exc |-> "none", ce |-> ce,
          value |-> ce[RegisterName(register)][relevant_elems].scope
                        \o CurrentLevel(ce[RegisterName(register)][relevant_elems].counts,
                                        level)]
    ELSE [exc |-> "none",
          ce |-> WithCounter(ce, RegisterName(register), relevant_elems),
          value |-> Zeros(level)]

\* index = 1 if not hasattr(elem, "level") else elem.level (line 427)
Index(elem) == IF elem.tag = "Header" THEN elem.level ELSE 1

\* Mutant of Incremented: an element already counted is not counted again
IncrementedOnce(counts, index) ==
    IF index <= Len(counts)
    THEN SubSeq([counts EXCEPT ![index] = Max(@, 1)], 1, index)
    ELSE counts \o Ones(index - Len(counts))

\* elem_counter[index] += 1, the appends after an IndexError and
\* del elem_counter[index + 1:] (lines 437-443)
Incremented(counts, index) ==
    IF index <= Len(counts)
    THEN SubSeq([counts EXCEPT ![index] = @ + 1], 1, index)
    ELSE counts \o Ones(index - Len(counts))

\* Mutant of Rescoped: the count is not restarted when the scope changes
RescopedKeepingCount(counter, index, current_level) ==
    [counter EXCEPT !.scope = current_level]

\* the counter after the scope check (lines 430-435), current_level being
\* what get_elem_count gave for the scope
Rescoped(counter, index, current_level) ==
    IF current_level # counter.scope
    THEN [scope |-> current_level, counts |-> Ones(index - 1) \o <<0>>]
    ELSE counter


\* the counter of type_name in register, counted once more for index
CountedIn(ce, register, type_name, index) ==
    [ce EXCEPT ![register][type_name].counts = Incremented(@, index)]

\* the scope check on that counter
RescopedIn(ce, register, type_name, index, current_level) ==
    [ce EXCEPT ![register][type_name] = Rescoped(@, index, current_level)]

\* lines 429-443 for a matching element, g being what
\* get_elem_count(doc, **scope) returned and made of doc.count_elems
CountedInScope(g, register, type_name, index) ==
    CountedIn(RescopedIn(g.ce, register, type_name, index, g.value),
              register, type_name, index)

\* The forms of the scope argument: None, a dict with relevant_elems and
\* level, and the tuple the docstring describes
NoScope == [kind |-> "None"]

DictScope(relevant_elems, level) ==
    [kind |-> "dict", relevant_elems |-> relevant_elems, level |-> level]

TupleScope(register, relevant_elems, levels) ==
    [kind |-> "tuple", register |-> register, relevant_elems |-> relevant_elems,
     levels |-> levels]

\* count_elements with scope=None (lines 401-402 and 409-443)
CountUnscoped(ce, elem, relevant_elems, register) ==
    IF checker(relevant_elems, elem)
    THEN CountedIn(WithCounter(ce, RegisterName(register), relevant_elems),
                   RegisterName(register), relevant_elems, Index(elem))
    ELSE ce

\* lines 409-443 of a call whose scope is a dict; scope.setdefault has given
\* the scope the call's register
CountScoped(ce, elem, relevant_elems, register, scope) ==
    IF checker(relevant_elems, elem)
    THEN CountedInScope(
             GetElemCount(WithCounter(ce, RegisterName(register), relevant_elems),
                          scope.relevant_elems, scope.level, register),
             RegisterName(register), relevant_elems, Index(elem))
    ELSE ce

\* count_elements (lines 366-443): a scope is first counted itself by
\* count_elements(elem, doc, **scope) (line 407); a tuple has no setdefault
\* (line 405)
CountElements(ce, elem, relevant_elems, register, scope) ==
    IF scope.kind = "tuple" THEN [exc |-> "AttributeError", ce |-> ce]
    ELSE IF scope.kind = "None"
    THEN [exc |-> "none", ce |-> CountUnscoped(ce, elem, relevant_elems, register)]
    ELSE [exc |-> "none",
          ce |-> CountScoped(CountUnscoped(ce, elem, scope.relevant_elems, register),
                             elem, relevant_elems, register, scope)]

\* The calls of the repository: render_float_rows (figure.py lines 815-821
\* and 839-845), render_table (table.py lines 242-248), and a call that
\* leaves register and scope at their defaults
FloatRowsCall ==
    [relevant_elems |-> "Table", register |-> StrV("table"),
     scope |-> DictScope("Header", 1)]

RenderTableCall ==
    [relevant_elems |-> "Table", register |-> StrV("table"),
     scope |-> TupleScope(NoneV, "Header", 2)]

DefaultCall == [relevant_elems |-> "Table", register |-> NoneV, scope |-> NoScope]

CountCalls == {FloatRowsCall, RenderTableCall, DefaultCall}

\* Bound of the level a count is asked at
MaxLevel == 2

UtilsInit ==
    /\ doc_count_elems = Unset
    /\ ut_walked = <<>>
    /\ ut_call = NoCall
    /\ ut_result = [exc |-> "none", value |-> NoneV]

UtilsIdle == UtilsInit

\* count_elements(elem, doc, relevant_elems, register=, scope=) for the next
\* element of the walk; the call record keeps doc.count_elems as it was
count_elements(elem, call) ==
    /\ Len(ut_walked) < MaxWalk
    /\ ut_walked' = Append(ut_walked, [elem |-> elem, call |-> call])
    /\ ut_call' = [op |-> "count_elements", elem |-> elem, call |-> call,
                   before |-> doc_count_elems]
    /\ \E r \in {CountElements(doc_count_elems, elem, call.relevant_elems,
                               call.register, call.scope)} :
           /\ doc_count_elems' = r.ce
           /\ ut_result' = [exc |-> r.exc, value |-> NoneV]

\* get_elem_count(doc, relevant_elems, level, register=)
get_elem_count(relevant_elems, level, register) ==
    /\ ut_call' = [op |-> "get_elem_count", relevant_elems |-> relevant_elems,
                   level |-> level, register |-> register,
                   before |-> doc_count_elems]
    /\ \E r \in {GetElemCount(doc_count_elems, relevant_elems, level, register)} :
           /\ doc_count_elems' = r.ce
           /\ ut_result' = [exc |-> r.exc, value |-> r.value]
    /\ UNCHANGED ut_walked

----------------------------------------------------------------------------
(* _parsers.py: the grammar of column definitions, on a text given as its
   sequence of lexemes; _latex_column_definitions.py: __repr__ *)

\* a punctuation character, a word of letters, digits and underscores, and
\* a number or quoted string with the Python value it denotes
Punct(c) == [lx |-> "punct", v |-> c]

Word(w) == [lx |-> "word", v |-> w]

Literal(value) == [lx |-> "literal", val |-> value]

IsPunct(text, i, c) == i <= Len(text) /\ text[i].lx = "punct" /\ text[i].v = c

IsWord(text, i) == i <= Len(text) /\ text[i].lx = "word"

\* the words of the texts that are a single letter
Letters == {"l", "r", "c", "p", "S", "z"}

NoMatch == [ok |-> FALSE]

Matched(pos, v) == [ok |-> TRUE, pos |-> pos, v |-> v]

\* boolean (lines 31-33)
IsBoolean(text, i) == IsWord(text, i) /\ text[i].v \in {"true", "false"}

\* token_ (lines 53-55): a word that is not a boolean
IsToken(text, i) == IsWord(text, i) /\ ~IsBoolean(text, i)

\* identifier (lines 71-73): one letter, not followed by "=" or by a word
IsIdentifier(text, i) ==
    /\ IsWord(text, i)
    /\ text[i].v \in Letters
    /\ ~IsPunct(text, i + 1, "=")
    /\ ~IsWord(text, i + 1)

RECURSIVE ParseValue(_, _)
RECURSIVE ParseColumnDefinition(_, _)
RECURSIVE MoreDefinitions(_, _, _)
RECURSIVE MoreValues(_, _, _)
RECURSIVE MoreOptionals(_, _, _)

BareDefinition(text, i) == Matched(i + 1, Definition(text[i].v, <<>>, <<>>))

\* Optional("[" + options + "]") after the identifier at i, o being what
\* options matched after the bracket: without the closing bracket the
\* Optional matches nothing
WithOptions(text, i, o) ==
    IF o.ok /\ IsPunct(text, o.pos, "]")
    THEN Matched(o.pos + 1, Definition(text[i].v, o.v.required, o.v.optional))
    ELSE BareDefinition(text, i)

\* key_value_pair | token (lines 60-67), v being the value after "key ="
OptionalItem(text, i, v) ==
    IF ~IsToken(text, i) THEN NoMatch
    ELSE IF IsPunct(text, i + 1, "=") /\ v.ok
    THEN Matched(v.pos, KeyValuePair(text[i].v, v.v))
    ELSE Matched(i + 1, Token(text[i].v))

ParseOptional(text, i) ==
    OptionalItem(text, i,
        IF IsToken(text, i) /\ IsPunct(text, i + 1, "=")
        THEN ParseValue(text, i + 2) ELSE NoMatch)

\* pp.delimitedList: the items after the first, as long as a comma and an
\* item follow
MoreOptionalsNext(text, pos, acc, o) ==
    IF o.ok THEN MoreOptionals(text, o.pos, Append(acc, o.v)) ELSE Matched(pos, acc)

MoreOptionals(text, pos, acc) ==
    IF IsPunct(text, pos, ",")
    THEN MoreOptionalsNext(text, pos, acc, ParseOptional(text, pos + 1))
    ELSE Matched(pos, acc)

FirstOptional(text, o) ==
    IF o.ok THEN MoreOptionals(text, o.pos, <<o.v>>) ELSE NoMatch

\* optionals (line 68)
ParseOptionals(text, i) == FirstOptional(text, ParseOptional(text, i))

MoreValuesNext(text, pos, acc, v) ==
    IF v.ok THEN MoreValues(text, v.pos, Append(acc, v.v)) ELSE Matched(pos, acc)

MoreValues(text, pos, acc) ==
    IF IsPunct(text, pos, ",")
    THEN MoreValuesNext(text, pos, acc, ParseValue(text, pos + 1))
    ELSE Matched(pos, acc)

FirstValue(text, v) ==
    IF v.ok THEN MoreValues(text, v.pos, <<v.v>>) ELSE NoMatch

\* requireds (line 51)
ParseRequireds(text, i) == FirstValue(text, ParseValue(text, i))

OptionsOf(required, optional) == [required |-> required, optional |-> optional]

\* (requireds + "," + optionals) | requireds, rq being the requireds and op
\* the optionals after their comma
RequiredsThenOptionals(text, rq, op) ==
    IF IsPunct(text, rq.pos, ",") /\ op.ok
    THEN Matched(op.pos, OptionsOf(rq.v, op.v))
    ELSE Matched(rq.pos, OptionsOf(rq.v, <<>>))

OnlyOptionals(op) ==
    IF op.ok THEN Matched(op.pos, OptionsOf(<<>>, op.v)) ELSE NoMatch

OptionsAfter(text, i, rq) ==
    IF rq.ok
    THEN RequiredsThenOptionals(text, rq,
             IF IsPunct(text, rq.pos, ",")
             THEN ParseOptionals(text, rq.pos + 1) ELSE NoMatch)
    ELSE OnlyOptionals(ParseOptionals(text, i))

\* options (line 69)
ParseOptions(text, i) == OptionsAfter(text, i, ParseRequireds(text, i))

\* column_definition (lines 75-78)
ParseColumnDefinition(text, i) ==
    IF ~IsIdentifier(text, i) THEN NoMatch
    ELSE IF IsPunct(text, i + 1, "[")
    THEN WithOptions(text, i, ParseOptions(text, i + 2))
    ELSE BareDefinition(text, i)

MoreDefinitionsNext(text, pos, acc, d) ==
    IF d.ok THEN MoreDefinitions(text, d.pos, Append(acc, d.v)) ELSE Matched(pos, acc)

MoreDefinitions(text, pos, acc) ==
    IF IsPunct(text, pos, ",")
    THEN MoreDefinitionsNext(text, pos, acc, ParseColumnDefinition(text, pos + 1))
    ELSE Matched(pos, acc)

FirstDefinition(text, d) ==
    IF d.ok THEN MoreDefinitions(text, d.pos, <<d.v>>) ELSE NoMatch

\* column_definitions (line 80)
ParseColumnDefinitions(text, i) ==
    FirstDefinition(text, ParseColumnDefinition(text, i))

\* "[" + column_definitions_ + "]" made a List (lines 43-47)
BracketedList(text, ds) ==
    IF ds.ok /\ IsPunct(text, ds.pos, "]")
    THEN Matched(ds.pos + 1, List(ds.v)) ELSE NoMatch

ValueOtherThanDefinition(text, i) ==
    IF IsBoolean(text, i) THEN Matched(i + 1, BoolV(text[i].v = "true"))
    ELSE IF i <= Len(text) /\ text[i].lx = "literal" THEN Matched(i + 1, text[i].val)
    ELSE IF IsPunct(text, i, "[")
    THEN BracketedList(text, ParseColumnDefinitions(text, i + 1))
    ELSE NoMatch

ValueOf(text, i, d) ==
    IF d.ok THEN Matched(d.pos, ParseResults(d.v))
    ELSE ValueOtherThanDefinition(text, i)

\* value (lines 39-48): the alternatives in their order
ParseValue(text, i) == ValueOf(text, i, ParseColumnDefinition(text, i))

\* column_definitions.parseString(string): the text need not be matched to
\* its end (no parseAll); a text with no definition at its start raises
parseString(text) == ParseColumnDefinitions(text, 1)

\* f"{width_:.2f}": the hundredths the float is rounded to
Hundredths(q) == (200 * q[1] + q[2]) \div (2 * q[2])

\* ParagraphColumn.width (lines 254-263): a float is given as the string
\* "<hundredths>\textwidth", anything else as it was stored
WidthGetter(width) ==
    IF width.t = "float" THEN [t |-> "str", textwidth |-> Hundredths(width.v)]
    ELSE width

\* getattr(self, option)
GetAttr(obj, option) ==
    IF option = "width" /\ IsParagraph(obj) THEN WidthGetter(obj.opts[option])
    ELSE obj.opts[option]

\* the names __repr__ chains: required_options, then optional_options.keys()
ReprOptions(cls) ==
    required_options(cls)
        \o [i \in DOMAIN optional_options(cls) |-> optional_options(cls)[i][1]]

RECURSIVE Repr(_, _)
RECURSIVE ReprList(_, _)
RECURSIVE ReprItems(_, _, _)

\* repr() of an option's value
ReprValue(h, value) ==
    IF value.t = "None" THEN <<Word("None")>>
    ELSE IF value.t = "bool" THEN <<Word(IF value.v THEN "True" ELSE "False")>>
    ELSE IF value.t = "ref" THEN Repr(h, value.v)
    ELSE IF value.t = "list"
    THEN <<Punct("[")>> \o ReprList(h, value.v) \o <<Punct("]")>>
    ELSE <<Literal(value)>>

ReprList(h, ids) ==
    IF ids = <<>> THEN <<>>
    ELSE Repr(h, Head(ids))
             \o (IF Tail(ids) = <<>> THEN <<>> ELSE <<Punct(",")>>)
             \o ReprList(h, Tail(ids))

\* ", ".join(f"{o}={repr(getattr(self, o))}" for o in options_)
ReprItems(h, id, options) ==
    IF options = <<>> THEN <<>>
    ELSE <<Word(Head(options)), Punct("=")>>
             \o ReprValue(h, GetAttr(h[id], Head(options)))
             \o (IF Tail(options) = <<>> THEN <<>> ELSE <<Punct(",")>>)
             \o ReprItems(h, id, Tail(options))

\* BaseColumnDefinition.__repr__ (lines 160-165): "{identifier}({options})"
Repr(h, id) ==
    <<Word(h[id].identifier), Punct("(")>>
        \o ReprItems(h, id, ReprOptions(h[id].identifier))
        \o <<Punct(")")>>

\* The most objects the heap holds before a string is parsed
MaxHeap == 4

\* The column definition strings parsed:
\*   l   r   S   z   l[no_space_after=true]   c[space_after='1em']   p[0.4]
\*   p['3cm']   p[0.4,indent_fraction=0.5]   l[multicolumn_definitions=r]
\*   p[0.4,multicolumn_definitions=[l,r]]   l,p[0.4]   p[abc]
DefinitionStrings ==
    << <<Word("l")>>,
       <<Word("r")>>,
       <<Word("S")>>,
       <<Word("z")>>,
       <<Word("l"), Punct("["), Word("no_space_after"), Punct("="), Word("true"),
         Punct("]")>>,
       <<Word("c"), Punct("["), Word("space_after"), Punct("="),
         Literal(StrV("1em")), Punct("]")>>,
       <<Word("p"), Punct("["), Literal(FloatV(Rat(2, 5))), Punct("]")>>,
       <<Word("p"), Punct("["), Literal(StrV("3cm")), Punct("]")>>,
       <<Word("p"), Punct("["), Literal(FloatV(Rat(2, 5))), Punct(","),
         Word("indent_fraction"), Punct("="), Literal(FloatV(Rat(1, 2))),
         Punct("]")>>,
       <<Word("l"), Punct("["), Word("multicolumn_definitions"), Punct("="),
         Word("r"), Punct("]")>>,
       <<Word("p"), Punct("["), Literal(FloatV(Rat(2, 5))), Punct(","),
         Word("multicolumn_definitions"), Punct("="), Punct("["), Word("l"),
         Punct(","), Word("r"), Punct("]"), Punct("]")>>,
       <<Word("l"), Punct(","), Word("p"), Punct("["),
         Literal(FloatV(Rat(2, 5))), Punct("]")>>,
       <<Word("p"), Punct("["), Word("abc"), Punct("]")>> >>

\* what list(column_specifiers_from_string(string)) leaves, p being what
\* parseString made of the string
FromParsed(h, p) ==
    IF ~p.ok THEN [exc |-> "ParseException", heap |-> h, ids |-> <<>>]
    ELSE column_specifiers_from_string_list(h, p.v, IgnoreErrorsDefault)

\* list(column_specifiers_from_string(string)) (lines 448-452) on the text
\* of the string
column_specifiers_from_text(string) ==
    /\ Len(heap) < MaxHeap
    /\ cs_call' = [op |-> "column_specifiers_from_string", string |-> string]
    /\ \E r \in {FromParsed(heap, parseString(string))} :
           /\ heap' = r.heap
           /\ cs_result' = [exc |-> r.exc,
                            value |-> IF r.exc = "none" THEN ListV(r.ids) ELSE NoneV]
    /\ UNCHANGED alignment

\* list(column_specifiers_from_string(repr(specifier))) for a specifier the
\* call before returned
column_specifiers_from_repr(id) ==
    /\ cs_call # NoCall
    /\ cs_result.exc = "none"
    /\ id \in {cs_result.value.v[i] : i \in DOMAIN cs_result.value.v}
    /\ Len(heap) < MaxHeap + 1
    /\ cs_call' = [op |-> "column_specifiers_from_repr", of |-> id,
                   string |-> Repr(heap, id)]
    /\ \E r \in {FromParsed(heap, parseString(Repr(heap, id)))} :
           /\ heap' = r.heap
           /\ cs_result' = [exc |-> r.exc,
                            value |-> IF r.exc = "none" THEN ListV(r.ids) ELSE NoneV]
    /\ UNCHANGED alignment

----------------------------------------------------------------------------
(* utils.py: resolve_dependencies and reduce_dependencies *)

\* Bounds of the dependency graphs resolved
MaxFunctions == 3

MaxEdges == 3

MaxArguments == 2

\* the functions make_dependent wrapped, one Dependent class for each
Functions == 1..MaxFunctions

\* the members of a list
Members(list) == {list[i] : i \in DOMAIN list}

\* the state of a resolution: the lists resolved and seen, both passed down
\* the recursion, and the exception raised
NewResolution == [exc |-> "none", resolved |-> <<>>, seen |-> <<>>]

RECURSIVE resolve_dependencies(_, _, _)
RECURSIVE resolve_each(_, _, _)

\* resolved.append(dependent) (line 119)
Resolved(dependent, st) ==
    IF st.exc # "none" THEN st
    ELSE [st EXCEPT !.resolved = Append(@, dependent)]

\* seen.append(dependent) (line 112)
Seen(dependent, st) == [st EXCEPT !.seen = Append(@, dependent)]

\* Mutant of resolve_dependencies: the dependent is appended to resolved
\* before its dependencies are resolved
resolve_dependencies_first(dependencies, dependent, st) ==
    IF st.exc # "none" \/ dependent \in Members(st.resolved) THEN st
    ELSE resolve_each(dependencies, dependencies[dependent],
                      Resolved(dependent, Seen(dependent, st)))

\* resolve_dependencies (lines 85-121) for one Dependent, dependencies
\* giving each Dependent's _dependencies
resolve_dependencies(dependencies, dependent, st) ==
    IF st.exc # "none" \/ dependent \in Members(st.resolved) THEN st
    ELSE Resolved(dependent,
             resolve_each(dependencies, dependencies[dependent],
                          Seen(dependent, st)))

\* the body of `for dependency in dependent._dependencies` (lines 114-118)
resolve_dependency(dependencies, dependency, st) ==
    IF dependency \in Members(st.resolved) THEN st
    ELSE IF dependency \in Members(st.seen)
    THEN [st EXCEPT !.exc = "Circular dependency"]
    ELSE resolve_dependencies(dependencies, dependency, st)

resolve_each(dependencies, ds, st) ==
    IF ds = <<>> \/ st.exc # "none" THEN st
    ELSE resolve_each(dependencies, Tail(ds),
                      resolve_dependency(dependencies, Head(ds), st))

\* functools.reduce(reduce_dependencies_helper, ...) over the arguments
\* (lines 196-216): each is resolved with the lists the one before returned
RECURSIVE reduce_dependencies_helper(_, _, _)
reduce_dependencies_helper(dependencies, list_, st) ==
    IF list_ = <<>> \/ st.exc # "none" THEN st
    ELSE reduce_dependencies_helper(dependencies, Tail(list_),
             resolve_dependencies(dependencies, Head(list_), st))

\* what reduce_dependencies returns for the reduction st
Reduced(st) ==
    [exc |-> st.exc, value |-> IF st.exc = "none" THEN st.resolved ELSE <<>>]

\* reduce_dependencies (lines 187-199): reduce over [None] + list(list_) has
\* no initial value, so without arguments it returns the None and [0] of it
\* raises TypeError
ReduceDependencies(dependencies, list_) ==
    IF list_ = <<>> THEN [exc |-> "TypeError", value |-> <<>>]
    ELSE Reduced(reduce_dependencies_helper(dependencies, list_, NewResolution))

\* the members of a set of functions in ascending or descending order
RECURSIVE Ascending(_)
Ascending(S) ==
    IF S = {} THEN <<>>
    ELSE <<CHOOSE x \in S : \A y \in S : x <= y>>
             \o Ascending(S \ {CHOOSE x \in S : \A y \in S : x <= y})

Reversed(s) == [i \in DOMAIN s |-> s[Len(s) + 1 - i]]

\* the dependencies given to make_dependent, from the set of the edges
DependenciesOf(edges, descending) ==
    [f \in Functions |->
        IF descending THEN Reversed(Ascending({g \in Functions : <<f, g>> \in edges}))
        ELSE Ascending({g \in Functions : <<f, g>> \in edges})]

DependencyGraphs ==
    {DependenciesOf(edges, descending) :
        edges \in {E \in SUBSET (Functions \X Functions) : Cardinality(E) <= MaxEdges},
        descending \in BOOLEAN}

\* reduce_dependencies(*list_) for functions declared with the given
\* dependencies, the first call made
reduce_dependencies(dependencies, list_) ==
    /\ ut_call.op = "none"
    /\ ut_call' = [op |-> "reduce_dependencies", dependencies |-> dependencies,
                   list_ |-> list_]
    /\ \E r \in {ReduceDependencies(dependencies, list_)} :
           ut_result' = [exc |-> r.exc, value |-> r.value]
    /\ UNCHANGED <<doc_count_elems, ut_walked>>

----------------------------------------------------------------------------
(* figure.py: format_row, the cells and the rules of one row *)

\* Bounds of the rows formatted
MaxRowCells == 3

MaxCellIndent == 1

MaxSpan == 2

MaxHeaderCells == 2

\* sum(cols[a:b]), the slice ending with the list
RECURSIVE SliceSum(_, _, _)
SliceSum(cols, a, b) ==
    IF a >= b \/ a >= Len(cols) THEN 0
    ELSE cols[a + 1] + SliceSum(cols, a + 1, b)

\* what get_cell_options returns for a cell, with the indent find_indents
\* counted in it and the inlines gather_inline finds in what is left of it
Cell(cell_indent, underline, multicolumn_, force_multicolumn, content) ==
    [indent |-> cell_indent, underline |-> underline, multicolumn_ |-> multicolumn_,
     force_multicolumn |-> force_multicolumn, content |-> content]

\* underline is None, 0 (an option string without underline), a width or
\* "midrule"; multicolumn a width; a cell holds one inline or none
Cells ==
    {Cell(cell_indent, underline, multicolumn_, force_multicolumn, content) :
        cell_indent \in 0..MaxCellIndent,
        underline \in {NoneV, StrV("midrule")} \cup {IntV(u) : u \in 0..MaxSpan},
        multicolumn_ \in 1..MaxSpan,
        force_multicolumn \in BOOLEAN,
        content \in {0, 1}}

\* `if underline:`
Underlined(underline) ==
    IF underline.t = "None" THEN FALSE
    ELSE IF underline.t = "int" THEN underline.v # 0
    ELSE TRUE

\* multicolumn (line 374)
Multicolumns(cols, i, cell) ==
    SliceSum(cols, i, i + cell.multicolumn_) - cell.indent + cell.multicolumn_

\* from_ (line 376)
From(cols, i, cell) == i + SliceSum(cols, 0, i) + cell.indent + 1

\* to (lines 382-387)
To(cols, i, cell) ==
    From(cols, i, cell)
        + SliceSum(cols, i, i + Max(cell.multicolumn_, cell.underline.v))
        + Max(cell.multicolumn_, cell.underline.v) - 1

\* trim (lines 389-390)
Trim(cols, from_, to) ==
    <<from_ # 1, to # Len(cols) + SliceSum(cols, 0, Len(cols))>>

Midrule == [kind |-> "midrule"]

Cmidrule(trim, from_, to) ==
    [kind |-> "cmidrule", trim |-> trim, from_ |-> from_, to |-> to]

\* what `if underline:` appends to lines (lines 378-394)
LinesOf(cols, i, cell) ==
    IF ~Underlined(cell.underline) THEN <<>>
    ELSE IF cell.underline.t = "str" THEN <<Midrule>>
    ELSE <<Cmidrule(Trim(cols, From(cols, i, cell), To(cols, i, cell)),
                    From(cols, i, cell), To(cols, i, cell))>>

\* `if multicolumn > 1 or force_multicolumn`
IsMulticolumn(cols, i, cell) ==
    Multicolumns(cols, i, cell) > 1 \/ cell.force_multicolumn

\* the inlines one cell appends to cells: the separator, one " & " for each
\* indent, and the content, wrapped in a multicolumn or not
CellsOf(cols, i, cell, first) ==
    (IF first THEN 0 ELSE 1) + cell.indent + cell.content
        + (IF IsMulticolumn(cols, i, cell) THEN 2 ELSE 0)

\* the physical columns those inlines fill: one for each indent, and the
\* width of the multicolumn or the one column of a plain cell
ColumnsOf(cols, i, cell) ==
    cell.indent
        + (IF IsMulticolumn(cols, i, cell) THEN Multicolumns(cols, i, cell) ELSE 1)

\* skip after a multicolumn (lines 397, 372)
SkipOf(cols, i, cell) ==
    Multicolumns(cols, i, cell) - 1 - (cols[i + 1] - cell.indent)

\* the right-edge test of line 405
AtRightEdge(cols, i, cell) ==
    SliceSum(cols, 0, i) + i + Multicolumns(cols, i, cell) + cell.indent
        = Len(cols) + SliceSum(cols, 0, Len(cols))

\* the copy of the row's specifier a multicolumn is aligned with (line 401),
\* as far as its padding goes
Unpadded == [no_left_padding |-> FALSE, no_right_padding |-> FALSE]

NoCell == [skipped |-> TRUE]

FormatRowInit ==
    /\ fr_pc = "loop"
    /\ fr_cols \in SeqsOf(0..MaxCellIndent, 1, MaxRowCells)
    /\ fr_is_header \in BOOLEAN
    /\ fr_leave \in BOOLEAN
    /\ fr_i = 0
    /\ fr_first = TRUE
    /\ fr_skip = 0
    /\ fr_cells = 0
    /\ fr_lines = 0
    /\ fr_appended = <<>>
    /\ fr_cell = NoCell
    /\ fr_columns = 0
    /\ fr_spanned = 0

FormatRowIdle ==
    /\ fr_pc = "idle"
    /\ fr_cols = <<>>
    /\ fr_is_header = FALSE
    /\ fr_leave = FALSE
    /\ fr_i = 0
    /\ fr_first = TRUE
    /\ fr_skip = 0
    /\ fr_cells = 0
    /\ fr_lines = 0
    /\ fr_appended = <<>>
    /\ fr_cell = NoCell
    /\ fr_columns = 0
    /\ fr_spanned = 0

\* One pass of `for i, cell in enumerate(elem.content)` (lines 347-420). The
\* columns of the row are l columns, whose get_n_definition returns a copy
\* that the pass drops after reading its latex; cols[i] is the deepest
\* indent of column i (get_cols), so no cell is indented deeper.
format_row_cell(cell) ==
    /\ fr_pc = "loop"
    /\ fr_i < Len(fr_cols)
    /\ cell.indent <= fr_cols[fr_i + 1]
    /\ fr_i' = fr_i + 1
    /\ IF fr_skip > 0
       THEN /\ fr_skip' = fr_skip - 1
            /\ fr_cell' = NoCell
            /\ fr_spanned' = IF fr_spanned > 0 THEN fr_spanned - 1 ELSE 0
            /\ fr_appended' = <<>>
            /\ UNCHANGED <<fr_first, fr_cells, fr_lines, fr_columns>>
       ELSE /\ fr_first' = FALSE
            /\ fr_cells' = fr_cells + CellsOf(fr_cols, fr_i, cell, fr_first)
            /\ fr_columns' = fr_columns + ColumnsOf(fr_cols, fr_i, cell)
            /\ fr_appended' = LinesOf(fr_cols, fr_i, cell)
            /\ fr_lines' = fr_lines + Len(fr_appended')
            /\ fr_skip' = IF IsMulticolumn(fr_cols, fr_i, cell)
                          THEN SkipOf(fr_cols, fr_i, cell)
                          ELSE fr_skip
            /\ fr_spanned' = cell.multicolumn_ - 1
            /\ fr_cell' = [skipped |-> FALSE, i |-> fr_i,
                           underline |-> cell.underline,
                           multicolumn_ |-> cell.multicolumn_,
                           from_ |-> From(fr_cols, fr_i, cell),
                           is_multicolumn |-> IsMulticolumn(fr_cols, fr_i, cell),
                           multicolumn |-> Multicolumns(fr_cols, fr_i, cell),
                           align |-> IF IsMulticolumn(fr_cols, fr_i, cell)
                                     THEN Padded(Unpadded, fr_i = 0,
                                                 AtRightEdge(fr_cols, fr_i, cell),
                                                 fr_leave)
                                     ELSE Unpadded]
    /\ UNCHANGED <<fr_pc, fr_cols, fr_is_header, fr_leave>>

\* Mutant of HeaderLines: the rule is appended whatever the cells produced
HeaderLinesWithRules(cells, lines, is_header) ==
    IF cells > 0 /\ is_header THEN <<Midrule>> ELSE <<>>

\* what the end of format_row appends to lines (lines 422-428)
HeaderLines(cells, lines, is_header) ==
    IF cells > 0 /\ lines = 0 /\ is_header THEN <<Midrule>> ELSE <<>>

\* the end of format_row (lines 422-430)
format_row_return ==
    /\ fr_pc = "loop"
    /\ fr_i = Len(fr_cols)
    /\ fr_pc' = "returned"
    /\ fr_appended' = HeaderLines(fr_cells, fr_lines, fr_is_header)
    /\ fr_lines' = fr_lines + Len(fr_appended')
    /\ fr_cells' = IF fr_cells > 0 THEN fr_cells + 1 + fr_lines' ELSE fr_cells
    /\ UNCHANGED <<fr_cols, fr_is_header, fr_leave, fr_i, fr_first, fr_skip,
                   fr_cell, fr_columns, fr_spanned>>


----------------------------------------------------------------------------
(* figure.py: find_indents and get_cols, the two walks over the '~~~' of a
   table *)

\* Bounds of the tables measured
MaxTableCols == 2

MaxBodyRows == 2

MaxMarked == 2

\* A cell is given by the number of Str("~~~") elements in it, a row by its
\* cells; a table has its body rows in content (at least one: pf.Table reads
\* content[0] when it is made) and a header row or none
NoHeader == <<>>

\* the table of n_rows rows (the header, if any, being the first) and
\* n_cols columns whose '~~~' are given by marks, a function from the
\* positions of the cells that hold any to their number
TableOf(has_header, n_rows, n_cols, marks) ==
    [header |-> IF has_header
                THEN [i \in 1..n_cols |->
                         IF <<1, i>> \in DOMAIN marks THEN marks[<<1, i>>] ELSE 0]
                ELSE NoHeader,
     content |-> [r \in 1..(n_rows - (IF has_header THEN 1 ELSE 0)) |->
                     [i \in 1..n_cols |->
                         IF <<r + (IF has_header THEN 1 ELSE 0), i>> \in DOMAIN marks
                         THEN marks[<<r + (IF has_header THEN 1 ELSE 0), i>>]
                         ELSE 0]]]

\* at most MaxMarked cells of a table hold a '~~~'
Marks(n_rows, n_cols) ==
    UNION {[cells -> 1..MaxCellIndent] :
              cells \in {c \in SUBSET ((1..n_rows) \X (1..n_cols)) :
                            Cardinality(c) <= MaxMarked}}

Tables ==
    UNION {
        {TableOf(has_header, n_body + (IF has_header THEN 1 ELSE 0), n_cols, marks) :
            marks \in Marks(n_body + (IF has_header THEN 1 ELSE 0), n_cols)}
        : has_header \in BOOLEAN, n_body \in 1..MaxBodyRows, n_cols \in 1..MaxTableCols}

\* _has_header (lines 528-536); a header row without content holds no '~~~'
HasHeader(elem) == elem.header # NoHeader

\* it.chain(header, elem.content) (line 581)
ChainedRows(elem) ==
    (IF HasHeader(elem) THEN <<elem.header>> ELSE <<>>) \o elem.content

\* the table as that chain, with cell i of row r replaced
WithCell(elem, r, i, cell) ==
    IF HasHeader(elem)
    THEN IF r = 1 THEN [elem EXCEPT !.header[i] = cell]
         ELSE [elem EXCEPT !.content[r - 1][i] = cell]
    ELSE [elem EXCEPT !.content[r][i] = cell]

\* Mutant of FindIndents: the '~~~' are removed by every walk
FindIndentsPurging(cell, purge_indents) ==
    [table_indent |-> cell, cell |-> 0]

\* cell.walk(find_indents) after doc.table_indent = 0 (lines 561-567, 583-584):
\* every Str("~~~") counts, and is replaced by [] when doc.purge_indents
FindIndents(cell, purge_indents) ==
    [table_indent |-> cell,
     cell |-> IF purge_indents = BoolV(TRUE) THEN 0 ELSE cell]

GetColsInit ==
    /\ gc_pc = "called"
    /\ gc_given \in Tables
    /\ gc_elem = gc_given
    /\ gc_cols = <<>>
    /\ gc_r = 1
    /\ gc_i = 1
    /\ doc_table_indent = 0
    /\ doc_purge_indents \in {Unset, BoolV(TRUE)}

GetColsIdle ==
    /\ gc_pc = "idle"
    /\ gc_given = [header |-> NoHeader, content |-> <<>>]
    /\ gc_elem = gc_given
    /\ gc_cols = <<>>
    /\ gc_r = 1
    /\ gc_i = 1
    /\ doc_table_indent = 0
    /\ doc_purge_indents = Unset

\* the position after cell i of row r
NextRow(elem, r, i) == IF i = Len(ChainedRows(elem)[r]) THEN r + 1 ELSE r

NextCell(elem, r, i) == IF i = Len(ChainedRows(elem)[r]) THEN 1 ELSE i + 1

\* get_cols up to the loop (lines 570-579)
get_cols_begin ==
    /\ gc_pc = "called"
    /\ gc_pc' = "measure"
    /\ gc_cols' = Zeros(Len(gc_elem.content[1]))
    /\ doc_purge_indents' = BoolV(FALSE)
    /\ UNCHANGED <<gc_given, gc_elem, gc_r, gc_i, doc_table_indent>>

\* one pass of the inner loop of get_cols (lines 582-585)
get_cols_cell ==
    /\ gc_pc = "measure"
    /\ gc_r <= Len(ChainedRows(gc_elem))
    /\ \E walked \in {FindIndents(ChainedRows(gc_elem)[gc_r][gc_i],
                                  doc_purge_indents)} :
           /\ doc_table_indent' = walked.table_indent
           /\ gc_elem' = WithCell(gc_elem, gc_r, gc_i, walked.cell)
           /\ gc_cols' = [gc_cols EXCEPT ![gc_i] = Max(walked.table_indent, @)]
    /\ gc_r' = NextRow(gc_elem, gc_r, gc_i)
    /\ gc_i' = NextCell(gc_elem, gc_r, gc_i)
    /\ UNCHANGED <<gc_pc, gc_given, doc_purge_indents>>

\* the end of get_cols (lines 587-589); format_table then formats the header
\* and the rows in the same order (lines 658-668)
get_cols_return ==
    /\ gc_pc = "measure"
    /\ gc_r > Len(ChainedRows(gc_elem))
    /\ gc_pc' = "format"
    /\ doc_purge_indents' = BoolV(TRUE)
    /\ gc_r' = 1
    /\ gc_i' = 1
    /\ UNCHANGED <<gc_given, gc_elem, gc_cols, doc_table_indent>>

\* the walk format_row starts on each cell with (lines 347-350)
format_row_indent ==
    /\ gc_pc = "format"
    /\ \E walked \in {FindIndents(ChainedRows(gc_elem)[gc_r][gc_i],
                                  doc_purge_indents)} :
           /\ doc_table_indent' = walked.table_indent
           /\ gc_elem' = WithCell(gc_elem, gc_r, gc_i, walked.cell)
    /\ gc_r' = NextRow(gc_elem, gc_r, gc_i)
    /\ gc_i' = NextCell(gc_elem, gc_r, gc_i)
    /\ gc_pc' = IF gc_r' > Len(ChainedRows(gc_elem)) THEN "formatted" ELSE "format"
    /\ UNCHANGED <<gc_given, gc_cols, doc_purge_indents>>


----------------------------------------------------------------------------
(* utils.py: before_action and the walk that replaces Element.walk *)

\* Bound of the trees walked
MaxNodes == 4

\* A tree is given by the parent of each element, 0 for the root (element
\* 1); the children of an element are walked in the order of their numbers
Trees ==
    UNION {{tree \in [1..n -> 0..(n - 1)] :
               /\ tree[1] = 0
               /\ \A e \in 2..n : tree[e] \in 1..(e - 1)}
           : n \in 1..MaxNodes}

\* the children of elem that come after the child 'after'
ChildrenAfter(tree, elem, after) ==
    {c \in DOMAIN tree : tree[c] = elem /\ c > after}

Least(S) == CHOOSE c \in S : \A other \in S : c <= other

\* self.func(elem, doc): a generator that has run nothing yet. at is the
\* number of yields it has reached
NewGenerator(elem) == [t |-> "generator", elem |-> elem, at |-> 0, stopped |-> FALSE]

\* next(gen) for a function with 'yields' yields: the part of the function
\* that runs (part k is the code between yield k and yield k + 1), and
\* whether StopIteration is raised
NextOf(gen, yields) ==
    IF gen.stopped THEN [gen |-> gen, ran |-> <<>>, stop |-> TRUE]
    ELSE IF gen.at < yields
    THEN [gen |-> [gen EXCEPT !.at = @ + 1], ran |-> <<gen.at>>, stop |-> FALSE]
    ELSE [gen |-> [gen EXCEPT !.stopped = TRUE], ran |-> <<gen.at>>, stop |-> TRUE]

\* _BeforeAction(function): no gen until do_before (lines 856-859)
BeforeAction == [gen |-> Unset]

\* Mutant of GetCopy: the walk of every element uses the one instance
GetSame(actions, action) == [actions |-> actions, id |-> action]

\* action.get_copy() (lines 865-866)
GetCopy(actions, action) ==
    [actions |-> Append(actions, BeforeAction), id |-> Len(actions) + 1]

\* the parts a call ran, as the log keeps them: the element the generator
\* was made for and the element whose walk ran it
Ran(parts, gen, elem) ==
    [k \in DOMAIN parts |-> [part |-> parts[k], elem |-> gen.elem, during |-> elem]]

WalkInit ==
    /\ wk_pc = "called"
    /\ wk_tree \in Trees
    /\ wk_yields \in 0..2
    /\ wk_actions = <<BeforeAction>>
    /\ wk_stack = <<>>
    /\ wk_log = <<>>

WalkIdle ==
    /\ wk_pc = "idle"
    /\ wk_tree = <<>>
    /\ wk_yields = 0
    /\ wk_actions = <<>>
    /\ wk_stack = <<>>
    /\ wk_log = <<>>

\* walk(self, action, doc) (lines 901-909) up to self._walk: the copy, and
\* do_before (lines 868-877) on it. _walk is the Element.walk of panflute,
\* which calls walk on each child and then action(self, doc)
Walk(self, action) ==
    \E copy \in {GetCopy(wk_actions, action)} :
        \E before \in {NextOf(NewGenerator(self), wk_yields)} :
            /\ wk_actions' = [copy.actions EXCEPT ![copy.id].gen = before.gen]
            /\ wk_log' = wk_log \o Ran(before.ran, before.gen, self)
            /\ wk_stack' =
                   (IF wk_stack = <<>> THEN <<>>
                    ELSE [wk_stack EXCEPT ![Len(wk_stack)].child = self])
                       \o <<[elem |-> self, action |-> copy.id, child |-> 0]>>

\* doc.walk(action, doc) of run_filters (line 956), or the walk of the next
\* child from _walk
walk ==
    /\ UNCHANGED <<wk_tree, wk_yields>>
    /\ IF wk_pc = "called"
       THEN /\ wk_pc' = "walking"
            /\ Walk(1, 1)
       ELSE /\ wk_pc = "walking"
            /\ wk_stack # <<>>
            /\ ChildrenAfter(wk_tree, wk_stack[Len(wk_stack)].elem,
                             wk_stack[Len(wk_stack)].child) # {}
            /\ wk_pc' = "walking"
            /\ Walk(Least(ChildrenAfter(wk_tree, wk_stack[Len(wk_stack)].elem,
                                        wk_stack[Len(wk_stack)].child)),
                    wk_stack[Len(wk_stack)].action)

\* action(self, doc) at the end of _walk: _BeforeAction.__call__ (lines
\* 879-883); the walk of the element returns
walked ==
    /\ wk_pc = "walking"
    /\ wk_stack # <<>>
    /\ ChildrenAfter(wk_tree, wk_stack[Len(wk_stack)].elem,
                     wk_stack[Len(wk_stack)].child) = {}
    /\ UNCHANGED <<wk_tree, wk_yields>>
    /\ IF wk_actions[wk_stack[Len(wk_stack)].action].gen.t = "unset"
       THEN /\ wk_pc' = "raised"
            /\ UNCHANGED <<wk_actions, wk_stack, wk_log>>
       ELSE \E after \in {NextOf(wk_actions[wk_stack[Len(wk_stack)].action].gen,
                                 wk_yields)} :
                /\ wk_actions' = [wk_actions EXCEPT
                                     ![wk_stack[Len(wk_stack)].action].gen = after.gen]
                /\ wk_log' = wk_log \o Ran(after.ran, after.gen,
                                           wk_stack[Len(wk_stack)].elem)
                /\ wk_stack' = SubSeq(wk_stack, 1, Len(wk_stack) - 1)
                /\ wk_pc' = IF Len(wk_stack) = 1 THEN "returned" ELSE "walking"

----------------------------------------------------------------------------
(* Specifications *)

TableInit == TableMatrixInit /\ WidthIdle /\ UnderlineIdle /\ ColumnIdle /\ CellOptionsIdle /\ UtilsIdle /\ FormatRowIdle /\ GetColsIdle /\ WalkIdle

TableNext ==
    \/ \E row \in MatrixRows : table_matrix_row(row) /\ UNCHANGED <<wk_vars, gc_vars, fr_vars, wa_vars, ul_vars, cs_vars, co_vars, ut_vars>>
    \/ table_matrix_return /\ UNCHANGED <<wk_vars, gc_vars, fr_vars, wa_vars, ul_vars, cs_vars, co_vars, ut_vars>>
    \/ table_matrix_empty /\ UNCHANGED <<wk_vars, gc_vars, fr_vars, wa_vars, ul_vars, cs_vars, co_vars, ut_vars>>

SpecTable == TableInit /\ [][TableNext]_vars

WidthSpecInit == WidthInit /\ TableMatrixIdle /\ UnderlineIdle /\ ColumnIdle /\ CellOptionsIdle /\ UtilsIdle /\ FormatRowIdle /\ GetColsIdle /\ WalkIdle

WidthNext ==
    \/ render_table_latex_widths /\ UNCHANGED <<wk_vars, gc_vars, fr_vars, tm_vars, ul_vars, cs_vars, co_vars, ut_vars>>
    \/ render_table_odt_widths /\ UNCHANGED <<wk_vars, gc_vars, fr_vars, tm_vars, ul_vars, cs_vars, co_vars, ut_vars>>

SpecWidth == WidthSpecInit /\ [][WidthNext]_vars

UnderlineSpecInit == UnderlineInit /\ TableMatrixIdle /\ WidthIdle /\ ColumnIdle /\ CellOptionsIdle /\ UtilsIdle /\ FormatRowIdle /\ GetColsIdle /\ WalkIdle

UnderlineNext ==
    \E start, stop \in 0..(ul_col_cnt + 1) :
        render_table_latex_underline(start, stop) /\ UNCHANGED <<wk_vars, gc_vars, fr_vars, tm_vars, wa_vars, cs_vars, co_vars, ut_vars>>

SpecUnderline == UnderlineSpecInit /\ [][UnderlineNext]_vars

ConstructInit == ColumnInit /\ TableMatrixIdle /\ WidthIdle /\ UnderlineIdle /\ CellOptionsIdle /\ UtilsIdle /\ FormatRowIdle /\ GetColsIdle /\ WalkIdle

ConstructNext ==
    \/ \E cls \in ConstructClasses, args \in SeqsOf(ArgValues, 0, MaxArgs),
          names \in SUBSET KwargNames :
           construct(cls, args, KwargsOver(names))
              /\ UNCHANGED <<wk_vars, gc_vars, fr_vars, tm_vars, wa_vars, ul_vars, co_vars, ut_vars>>
    \/ \E results \in SeqsOf(ParsedDefinitions, 1, MaxResults),
          ignore_errors \in BOOLEAN :
           column_specifiers_from_string(results, ignore_errors)
              /\ UNCHANGED <<wk_vars, gc_vars, fr_vars, tm_vars, wa_vars, ul_vars, co_vars, ut_vars>>

SpecConstruct == ConstructInit /\ [][ConstructNext]_vars

IndentSpecInit == IndentInit /\ TableMatrixIdle /\ WidthIdle /\ UnderlineIdle /\ CellOptionsIdle /\ UtilsIdle /\ FormatRowIdle /\ GetColsIdle /\ WalkIdle

IndentNext ==
    \/ \E self \in DOMAIN heap, num \in 0..MaxIndent :
           indent(self, num) /\ UNCHANGED <<wk_vars, gc_vars, fr_vars, tm_vars, wa_vars, ul_vars, co_vars, ut_vars>>
    \/ \E self \in DOMAIN heap, n \in 0..MaxIndent :
           get_n_definition(self, n) /\ UNCHANGED <<wk_vars, gc_vars, fr_vars, tm_vars, wa_vars, ul_vars, co_vars, ut_vars>>
    \/ \E column_specifier \in {NoneV, ParseResults(ParsedL)},
          cell_indent \in 0..MaxIndent,
          first \in BOOLEAN, at_edge \in BOOLEAN, leave \in BOOLEAN :
           format_row_align(column_specifier, cell_indent, first, at_edge, leave)
              /\ UNCHANGED <<wk_vars, gc_vars, fr_vars, tm_vars, wa_vars, ul_vars, co_vars, ut_vars>>

SpecIndent == IndentSpecInit /\ [][IndentNext]_vars

CellOptionsSpecInit ==
    CellOptionsInit /\ ColumnIdle /\ TableMatrixIdle /\ WidthIdle /\ UnderlineIdle /\ UtilsIdle /\ FormatRowIdle /\ GetColsIdle /\ WalkIdle

CellOptionsNext ==
    \/ get_cell_options_begin
           /\ UNCHANGED <<wk_vars, gc_vars, fr_vars, tm_vars, wa_vars, ul_vars, alignment, cs_call, cs_result, ut_vars>>
    \/ \E elem \in Elements :
           get_cell_options_elem(elem)
              /\ UNCHANGED <<wk_vars, gc_vars, fr_vars, tm_vars, wa_vars, ul_vars, alignment, cs_call, cs_result, ut_vars>>
    \/ get_cell_options_return
           /\ UNCHANGED <<wk_vars, gc_vars, fr_vars, tm_vars, wa_vars, ul_vars, alignment, cs_call, cs_result, ut_vars>>

SpecCellOptions == CellOptionsSpecInit /\ [][CellOptionsNext]_vars

OverrideSpecInit ==
    OverrideInit /\ TableMatrixIdle /\ WidthIdle /\ UnderlineIdle /\ CellOptionsIdle /\ UtilsIdle /\ FormatRowIdle /\ GetColsIdle /\ WalkIdle

SpecOverride == OverrideSpecInit /\ [][IndentNext]_vars

CountInit ==
    UtilsInit /\ ColumnIdle /\ TableMatrixIdle /\ WidthIdle /\ UnderlineIdle
        /\ CellOptionsIdle /\ FormatRowIdle /\ GetColsIdle /\ WalkIdle

CountNext ==
    \/ \E elem \in WalkedElements, call \in CountCalls :
           count_elements(elem, call)
              /\ UNCHANGED <<wk_vars, gc_vars, fr_vars, tm_vars, wa_vars, ul_vars, cs_vars, co_vars>>
    \/ \E relevant_elems \in {"Table", "Header"}, register \in {NoneV, StrV("table")} :
           get_elem_count(relevant_elems, 1, register)
              /\ UNCHANGED <<wk_vars, gc_vars, fr_vars, tm_vars, wa_vars, ul_vars, cs_vars, co_vars>>

SpecCount == CountInit /\ [][CountNext]_vars

\* the counts asked at every level
QueryNext ==
    \/ \E elem \in WalkedElements, call \in CountCalls :
           count_elements(elem, call)
              /\ UNCHANGED <<wk_vars, gc_vars, fr_vars, tm_vars, wa_vars, ul_vars, cs_vars, co_vars>>
    \/ \E relevant_elems \in {"Table", "Header"}, level \in 1..MaxLevel,
          register \in {NoneV, StrV("table")} :
           get_elem_count(relevant_elems, level, register)
              /\ UNCHANGED <<wk_vars, gc_vars, fr_vars, tm_vars, wa_vars, ul_vars, cs_vars, co_vars>>

SpecQuery == CountInit /\ [][QueryNext]_vars

OptionsNext ==
    \E required \in RequiredParts, optional \in SeqsOf(NamedItems, 0, MaxNamed),
       call \in OptionsCalls :
        /\ ~(required = <<>> /\ optional = <<>>)
        /\ options_from_string_call(OptionsResult(required, optional), call)
        /\ UNCHANGED <<wk_vars, gc_vars, fr_vars, tm_vars, wa_vars, ul_vars, co_vars, ut_vars>>

SpecOptions == ConstructInit /\ [][OptionsNext]_vars

----------------------------------------------------------------------------
(* Claims about table_matrix_to_pf, checked under SpecTable *)

\* sum(cell.col_span for cell in row if not cell.covered)
RECURSIVE SpanSum(_)
SpanSum(cells) ==
    IF cells = <<>> THEN 0
    ELSE (IF Head(cells).covered THEN 0 ELSE Head(cells).col_span)
         + SpanSum(Tail(cells))

\* the number of covered placeholder cells of a row
CoveredCount(cells) == Cardinality({i \in DOMAIN cells : cells[i].covered})

Accepted == tm_pc = "returned"

\* C1 as stated: in every row of an accepted table, the sum of col_span over
\* the non-covered cells plus the number of covered placeholders equals
\* col_cnt.
C1_SpanPlusCoveredIsColCnt ==
    Accepted =>
        \A i \in DOMAIN tm_result.content :
            SpanSum(tm_result.content[i]) + CoveredCount(tm_result.content[i])
                = tm_result.col_cnt

\* C1 (amended): in every row of an accepted table (col_span >= 1), the sum
\* of col_span over the non-covered cells equals col_cnt, and so does the
\* number of cells of the row (non-covered cells plus covered placeholders).
C1_ColumnCount ==
    Accepted =>
        \A i \in DOMAIN tm_result.content :
            /\ SpanSum(tm_result.content[i]) = tm_result.col_cnt
            /\ Len(tm_result.content[i]) = tm_result.col_cnt

\* An accepted table of two rows, one of them holding a spanned cell and its
\* covered placeholders next to an unspanned cell.
C1_Witness ==
    /\ Accepted
    /\ tm_result.row_cnt = 2
    /\ \E i \in DOMAIN tm_result.content :
           /\ CoveredCount(tm_result.content[i]) > 0
           /\ \E j \in DOMAIN tm_result.content[i] :
                  tm_result.content[i][j] = TableCell(1, FALSE)

\* The slot count of the claim: one slot per cell plus col_span - 1 covered
\* placeholders per spanned cell, multiplied by 'repeat'.
CellSlots(cell) ==
    IF cell.is_tuple
    THEN (IF cell.has_repeat THEN cell.repeat ELSE 1) * (1 + (cell.col_span - 1))
    ELSE 1

RECURSIVE RowSlots(_)
RowSlots(row) == IF row = <<>> THEN 0 ELSE CellSlots(Head(row)) + RowSlots(Tail(row))

FourUnspanned == <<StrCell, StrCell, StrCell, StrCell>>

\* A row of four cells, one of which declares col_span = 3, the others plain
SpanThreeAmongFour(row) ==
    /\ Len(row) = 4
    /\ \E j \in 1..4 :
           /\ row[j] = TupleCell(3, FALSE, 1)
           /\ \A k \in (1..4) \ {j} : row[k] = StrCell

----------------------------------------------------------------------------
(* Claims about width allocation, checked under SpecWidth *)

\* C3 as stated: for every raw width vector the resolved widths sum to the
\* table's total_width.
C3_WidthConservation ==
    wa_pc = "done" =>
        /\ wa_result.exc = "none"
        /\ RSum(wa_result.widths) = wa_table.total_width

\* What the code does guarantee: when at least one column is unspecified the
\* resolved widths sum to total_width.
WidthConservedWithUnspecified ==
    (wa_pc = "done" /\ UnspecifiedWidths(wa_table.width) > 0) =>
        /\ wa_result.exc = "none"
        /\ RSum(wa_result.widths) = wa_table.total_width

----------------------------------------------------------------------------
(* Claims about the underline rules, checked under SpecUnderline *)

LastHline == ul_hlines[Len(ul_hlines)]

TrimsLeft(side) == side \in {"l", "lr", "rl"}

TrimsRight(side) == side \in {"r", "lr", "rl"}

\* C7 as stated: a full-width rule iff start = 1 and stop = col_cnt; otherwise
\* a partial rule trimmed on the left iff start > 1 and on the right iff
\* stop < col_cnt; in a 4-column table (1,4) gives a full-width rule and
\* (2,3) gives the trim code "lr". (Read for ranges inside the table,
\* 1 <= start and stop <= col_cnt.)
C7_UnderlineTrimAsStated ==
    (ul_hlines # <<>> /\ 1 <= ul_underline[1] /\ ul_underline[2] <= ul_col_cnt) =>
        LET start == ul_underline[1]
            stop == ul_underline[2]
        IN  /\ LastHline.full <=> (start = 1 /\ stop = ul_col_cnt)
            /\ ~LastHline.full =>
                   /\ TrimsLeft(LastHline.cmidruleoption) <=> start > 1
                   /\ TrimsRight(LastHline.cmidruleoption) <=> stop < ul_col_cnt
            /\ (ul_col_cnt = 4 /\ start = 2 /\ stop = 3) =>
                   (~LastHline.full /\ LastHline.cmidruleoption = "lr")

\* C7 (amended): for a range with 1 <= start and stop <= col_cnt, a
\* full-width rule with no trim code is emitted iff start = 1 and
\* stop = col_cnt; otherwise a partial rule over start..stop, trimmed on the
\* left iff start > 1 and on the right iff stop < col_cnt; in a 4-column
\* table (1,4) gives the full-width rule and (2,3) the trim code "rl".
C7_UnderlineTrim ==
    (ul_hlines # <<>> /\ 1 <= ul_underline[1] /\ ul_underline[2] <= ul_col_cnt) =>
        LET start == ul_underline[1]
            stop == ul_underline[2]
        IN  /\ LastHline.full <=> (start = 1 /\ stop = ul_col_cnt)
            /\ LastHline.full => LastHline.cmidruleoption = ""
            /\ ~LastHline.full =>
                   /\ LastHline.start = start /\ LastHline.end = stop
                   /\ TrimsLeft(LastHline.cmidruleoption) <=> start > 1
                   /\ TrimsRight(LastHline.cmidruleoption) <=> stop < ul_col_cnt
            /\ (ul_col_cnt = 4 /\ start = 1 /\ stop = 4) => LastHline.full
            /\ (ul_col_cnt = 4 /\ start = 2 /\ stop = 3) =>
                   (~LastHline.full /\ LastHline.cmidruleoption = "rl")

\* A 4-column row with the two underlines of the spec's example: (1,4), then
\* (2,3), which gave a rule trimmed on both sides.
C7_Witness ==
    /\ ul_col_cnt = 4
    /\ Len(ul_hlines) = 2
    /\ ul_hlines[1].full
    /\ ul_underline = <<2, 3>>
    /\ TrimsLeft(LastHline.cmidruleoption) /\ TrimsRight(LastHline.cmidruleoption)


----------------------------------------------------------------------------
(* Claims about construction, checked under SpecConstruct *)

\* a default left-aligned specifier: what l() constructs
IsDefaultL(obj) == obj = Construct("l", <<>>, <<>>).obj

\* the class rejects the options of a parsed definition (its keyword values
\* here are literals or plain l columns, which construct without error)
Rejects(definition) ==
    /\ definition.identifier \in ColumnClasses
    /\ Construct(definition.identifier, definition.required,
                 process_optional(ImportedHeap, definition.optional, <<>>).kwargs).exc
           # "none"

Substituted(definition) ==
    definition.identifier \notin ColumnClasses \/ Rejects(definition)

FromStringCalled == cs_call.op = "column_specifiers_from_string"

\* C4: with ignore_errors=True column_specifiers_from_string never raises for
\* an unknown identifier or for options the class rejects: it returns one
\* specifier per column, a default 'l' in place of each such column; without
\* ignore_errors such a column makes the call raise.
C4_IgnoreErrorsSubstitutes ==
    FromStringCalled =>
        LET results == cs_call.results
        IN  IF cs_call.ignore_errors
            THEN /\ cs_result.exc = "none"
                 /\ Len(cs_result.value.v) = Len(results)
                 /\ \A i \in DOMAIN results :
                        Substituted(results[i]) =>
                            IsDefaultL(heap[cs_result.value.v[i]])
            ELSE (cs_result.exc # "none") <=>
                     \E i \in DOMAIN results : Substituted(results[i])

\* What the code does instead: the call raises ValueError exactly when some
\* column has an unknown identifier or rejected options, whatever
\* ignore_errors is.
FromStringRaisesRegardless ==
    FromStringCalled =>
        ((cs_result.exc = "ValueError") <=>
             \E i \in DOMAIN cs_call.results : Substituted(cs_call.results[i]))

ConstructCalled == cs_call.op = "construct"

\* the required options no keyword argument names, in declaration order
PositionalRequired(cls, kwargs) ==
    SelectSeq(required_options(cls), LAMBDA o : o \notin DOMAIN kwargs)

OptionNames(cls) ==
    {required_options(cls)[i] : i \in DOMAIN required_options(cls)}
        \cup DictKeys(optional_options(cls))

\* some required option is supplied neither positionally nor by keyword
MissingRequired(cls, args, kwargs) == Len(PositionalRequired(cls, kwargs)) > Len(args)

\* positional or keyword arguments remain unconsumed
Unconsumed(cls, args, kwargs) ==
    \/ Len(args) > Len(PositionalRequired(cls, kwargs))
    \/ ~(DOMAIN kwargs \subseteq OptionNames(cls))

\* the argument a required option is bound to: its keyword argument if given,
\* otherwise the next unused positional argument
BoundArgument(cls, args, kwargs, option) ==
    IF option \in DOMAIN kwargs THEN kwargs[option]
    ELSE LET pos == PositionalRequired(cls, kwargs)
         IN  args[CHOOSE j \in DOMAIN pos : pos[j] = option]

\* a value float() or str() turns into a paragraph width
WidthConvertible(value) == value.t \in {"float", "int", "bool", "str"}

\* the width argument of a paragraph column is not a number, bool or string
BadWidth(cls, args, kwargs) ==
    /\ cls \in ParagraphColumns
    /\ ~MissingRequired(cls, args, kwargs)
    /\ ~WidthConvertible(BoundArgument(cls, args, kwargs, "width"))

\* the stored options are the bound arguments and the declared defaults
BoundAsDeclared(cls, args, kwargs, obj) ==
    /\ obj.identifier = cls
    /\ DOMAIN obj.opts = OptionNames(cls)
    /\ \A i \in DOMAIN required_options(cls) :
           LET option == required_options(cls)[i]
               value == BoundArgument(cls, args, kwargs, option)
           IN  obj.opts[option] =
                   IF value.t = "int" THEN FloatV(Rat(value.v, 1))
                   ELSE IF value.t = "bool"
                   THEN FloatV(IF value.v THEN ROne ELSE RZero)
                   ELSE IF value = StrV("0.3") THEN FloatV(Rat(3, 10))
                   ELSE value
    /\ \A j \in DOMAIN optional_options(cls) :
           LET option == optional_options(cls)[j][1]
           IN  obj.opts[option] =
                   IF option \in DOMAIN kwargs THEN kwargs[option]
                   ELSE optional_options(cls)[j][2]

\* C5 as stated: construction fails if and only if a required option is
\* missing or arguments remain unconsumed.
C5_FailsIffMissingOrUnconsumed ==
    ConstructCalled =>
        ((cs_result.exc # "none") <=>
             \/ MissingRequired(cs_call.cls, cs_call.args, cs_call.kwargs)
             \/ Unconsumed(cs_call.cls, cs_call.args, cs_call.kwargs))

\* C5: a constructor call binds each required option to its keyword argument
\* if given, otherwise to the next unused positional argument (a paragraph
\* width converted by float(), or kept as the string when it is no float
\* literal); an optional option takes its keyword argument or else its
\* declared default; the call fails if and only if a required option is
\* missing, arguments remain unconsumed, or the width argument of a paragraph
\* column is neither a number, a bool nor a string.
C5_ConstructorBinding ==
    ConstructCalled =>
        LET cls == cs_call.cls
            args == cs_call.args
            kwargs == cs_call.kwargs
        IN  /\ (cs_result.exc # "none") <=>
                   \/ MissingRequired(cls, args, kwargs)
                   \/ Unconsumed(cls, args, kwargs)
                   \/ BadWidth(cls, args, kwargs)
            /\ cs_result.exc = "none" =>
                   BoundAsDeclared(cls, args, kwargs, heap[cs_result.value.v])

\* A paragraph column constructed from one positional width and a keyword
\* indent_fraction, its other options left to their defaults.
C5_Witness ==
    /\ ConstructCalled
    /\ cs_call.cls = "p"
    /\ cs_call.args = <<FloatV(Rat(2, 5))>>
    /\ DOMAIN cs_call.kwargs = {"indent_fraction"}
    /\ cs_result.exc = "none"
    /\ heap[cs_result.value.v].opts.width = FloatV(Rat(2, 5))
    /\ heap[cs_result.value.v].opts.indent_fraction = FloatV(Rat(1, 2))
    /\ heap[cs_result.value.v].opts.raggedright = BoolV(FALSE)
    /\ heap[cs_result.value.v].opts.baselineskip = StrV("10pt")


----------------------------------------------------------------------------
(* Claims about indent and get_n_definition, checked under SpecIndent *)

\* the widths of the specifiers the last indent returned, in order
LevelWidths == [j \in DOMAIN alignment |-> heap[alignment[j]].opts.width.v]

\* get_n_definition was called on the original of an indent(k), k >= 1: a
\* paragraph column without multicolumn override, last in the list returned
OnIndentedOriginal ==
    /\ cs_call.op = "get_n_definition"
    /\ Len(alignment) >= 2
    /\ cs_call.self = alignment[Len(alignment)]
    /\ IsParagraph(heap[cs_call.self])
    /\ heap[cs_call.self].opts.multicolumn_definitions = NoneV

ResultWidth == heap[cs_result.value.v].opts.width

\* C8 as stated: get_n_definition(k) on the original of an indent(k) has the
\* summed width of the k indentation levels.
C8_WidthOfIndentLevels ==
    (OnIndentedOriginal /\ cs_call.n = Len(alignment) - 1) =>
        /\ cs_result.exc = "none"
        /\ ResultWidth = FloatV(RSum(SubSeq(LevelWidths, 1, Len(alignment) - 1)))

\* C8: after indent(k), k >= 1, of a paragraph column without multicolumn
\* override, get_n_definition(n) on the original returns a specifier whose
\* width is the sum of the widths of the returned specifiers after the first
\* n: for n = k the width of the original as narrowed, not the sum of the k
\* indentation levels.
C8_WidthFromLevelN ==
    OnIndentedOriginal =>
        /\ cs_result.exc = "none"
        /\ ResultWidth =
               FloatV(RSum(SubSeq(LevelWidths, cs_call.n + 1, Len(alignment))))
        /\ heap[cs_result.value.v].p_identifier = StrV("p")

\* get_n_definition(2) after indent(2) of p[0.4]: the width is 0.32, the
\* original's remaining width, while the two indentation levels sum to 0.08.
C8_Witness ==
    /\ OnIndentedOriginal
    /\ cs_call.n = 2
    /\ LevelWidths = <<Rat(1, 25), Rat(1, 25), Rat(8, 25)>>
    /\ cs_result.exc = "none"
    /\ ResultWidth = FloatV(Rat(8, 25))

\* indent(k), k >= 1, was called on a paragraph column of float width w >= 0
\* with indent_fraction in (0, 1]
ParagraphIndented ==
    /\ cs_call.op = "indent"
    /\ cs_call.num >= 1
    /\ IsParagraph(cs_call.before)
    /\ cs_call.before.opts.width.t = "float"
    /\ RLeq(RZero, cs_call.before.opts.width.v)
    /\ cs_call.before.opts.indent_fraction.t = "float"
    /\ RLess(RZero, cs_call.before.opts.indent_fraction.v)
    /\ RLeq(cs_call.before.opts.indent_fraction.v, ROne)

ReturnedWidths ==
    [j \in DOMAIN cs_result.value.v |-> heap[cs_result.value.v[j]].opts.width.v]

\* C9: indent(k), k >= 1, on a paragraph column of width w and
\* indent_fraction f in (0, 1] returns k+1 specifiers whose widths sum to at
\* most w.
C9_WidthsSumAtMostW ==
    ParagraphIndented =>
        /\ cs_result.exc = "none"
        /\ Len(cs_result.value.v) = cs_call.num + 1
        /\ RLeq(RSum(ReturnedWidths), cs_call.before.opts.width.v)

\* What holds of the code: the k+1 widths sum to w when (k+1)*f <= 1 and to
\* (k+1)*f*w, which exceeds a positive w, otherwise.
IndentWidthsSum ==
    ParagraphIndented =>
        LET w == cs_call.before.opts.width.v
            f == cs_call.before.opts.indent_fraction.v
            levels == RMul(Rat(cs_call.num + 1, 1), f)
        IN  /\ cs_result.exc = "none"
            /\ Len(cs_result.value.v) = cs_call.num + 1
            /\ RSum(ReturnedWidths) = IF RLeq(levels, ROne) THEN w ELSE RMul(levels, w)

\* C10: indent never changes the specifier it is called on: after the call
\* its option values (the width among them) and its padding flags are what
\* they were when the call was made.
C10_IndentLeavesSelfUnchanged ==
    cs_call.op = "indent" =>
        /\ heap[cs_call.self].opts = cs_call.before.opts
        /\ heap[cs_call.self].no_left_padding = cs_call.before.no_left_padding
        /\ heap[cs_call.self].no_right_padding = cs_call.before.no_right_padding

\* What holds instead: with w > 0 and indent_fraction < 1 the call narrows
\* self in place.
IndentNarrowsSelf ==
    (ParagraphIndented /\ RLess(RZero, cs_call.before.opts.width.v)
         /\ RLess(cs_call.before.opts.indent_fraction.v, ROne)) =>
        RLess(heap[cs_call.self].opts.width.v, cs_call.before.opts.width.v)


----------------------------------------------------------------------------
(* Claims about the cell options, checked under SpecCellOptions *)

\* _get_cell_options has been called with the first element of a cell
FirstElementSeen == co_pc = "walk" /\ co_n = 1

\* the width digits a text can carry in front of its mark
WidthTexts == {text \in Texts : IsWidthDigits(text)}

ForceMulticolumnDirective == RawInline(OptionsResult(<<>>, <<Token("fm")>>))

\* what the claim and the code agree on: '_', '2_', '>' and a digit d before '_'
SentinelsAgreed ==
    /\ co_elem = Str(<<"_">>) =>
           /\ doc_cell_options.underline = IntV(1)
           /\ doc_cell_options.multicolumn = IntV(1)
    /\ co_elem = Str(<<"2", "_">>) => doc_cell_options.underline = IntV(2)
    /\ co_elem = Str(<<">">>) =>
           /\ doc_cell_options.multicolumn = IntV(2)
           /\ doc_cell_options.underline = IntV(0)
    /\ \A d \in WidthTexts :
           co_elem = Str(d \o <<"_">>) =>
               doc_cell_options.underline = IntV(IntOf(d))

\* C6 as stated: '_' is underline width 1, '2_' underline width 2, '>' a
\* multicolumn of two columns, '2>' a multicolumn of three columns, 'fm' sets
\* force-multicolumn, and a digit d before '_' is underline width d.
C6_SentinelsAsStated ==
    FirstElementSeen =>
        /\ SentinelsAgreed
        /\ co_elem = Str(<<"2", ">">>) => doc_cell_options.multicolumn = IntV(3)
        /\ co_elem = Str(<<"f", "m">>) =>
               doc_cell_options.force_multicolumn = BoolV(TRUE)

\* C6: '_' is underline width 1, '2_' underline width 2, '>' a multicolumn of
\* two columns; a digit d before '_' is underline width d and a digit d
\* before '>' is a multicolumn of d columns, so '2>' is two columns; the text
\* 'fm' is no sentinel: it stays in the cell and sets nothing, while the token
\* fm of a multicolumn directive sets force-multicolumn.
C6_Sentinels ==
    FirstElementSeen =>
        /\ SentinelsAgreed
        /\ co_elem = Str(<<"2", ">">>) => doc_cell_options.multicolumn = IntV(2)
        /\ \A d \in WidthTexts :
               co_elem = Str(d \o <<">">>) =>
                   /\ doc_cell_options.multicolumn = IntV(IntOf(d))
                   /\ co_removed
        /\ co_elem = Str(<<"f", "m">>) =>
               /\ ~co_removed
               /\ doc_cell_options = DefaultCellOptions
        /\ co_elem = ForceMulticolumnDirective =>
               /\ co_removed
               /\ doc_cell_options.force_multicolumn = BoolV(TRUE)
               /\ doc_cell_options.multicolumn = IntV(1)

\* The text '2>' seen as the first element of a cell: removed, two columns.
C6_Witness ==
    /\ FirstElementSeen
    /\ co_elem = Str(<<"2", ">">>)
    /\ co_removed
    /\ doc_cell_options.multicolumn = IntV(2)
    /\ doc_cell_options.underline = IntV(0)


----------------------------------------------------------------------------
(* Claims about options_from_string, checked under SpecOptions *)

OptionsCalled == cs_call.op = "options_from_string"

NamedOfCall == cs_call.result.optional

\* the name an alias stands for
Aliased(name) ==
    IF name \in DOMAIN cs_call.call.aliases THEN cs_call.call.aliases[name] ELSE name

IsMappedToken(o) == o.kind = "Token" /\ Aliased(o.token) \in DOMAIN cs_call.call.tokens

\* the canonical key a named item resolves to
CanonicalKey(o) ==
    IF o.kind = "KeyValuePair" THEN Aliased(o.key)
    ELSE IF IsMappedToken(o) THEN Aliased(cs_call.call.tokens[Aliased(o.token)][1])
    ELSE Aliased(Aliased(o.token))

\* the value a named item gives its key
ItemValue(o) ==
    IF o.kind = "KeyValuePair" THEN o.value
    ELSE IF IsMappedToken(o) THEN cs_call.call.tokens[Aliased(o.token)][2]
    ELSE BoolV(TRUE)

\* the named item at i is the last one of its canonical key
LastOfKey(i) ==
    \A j \in DOMAIN NamedOfCall :
        j > i => CanonicalKey(NamedOfCall[j]) # CanonicalKey(NamedOfCall[i])

\* C11: when options_from_string returns, every canonical key that named
\* items resolve to has the value of the last such item in source order
C11_LastNamedWins ==
    (OptionsCalled /\ cs_result.exc = "none") =>
        \A i \in DOMAIN NamedOfCall :
            LastOfKey(i) =>
                /\ CanonicalKey(NamedOfCall[i]) \in DOMAIN cs_result.value
                /\ cs_result.value[CanonicalKey(NamedOfCall[i])] = ItemValue(NamedOfCall[i])

\* '1,p[0.2],ul,mr' under the __main__ example's alias and token mapping gave
\* columns = 1, the p[0.2] specifier and underline = 'midrule'
C11_Witness ==
    /\ OptionsCalled
    /\ cs_call.call = MainExampleCall
    /\ cs_call.result = OptionsResult(<<IntV(1), ParseResults(ParsedP02)>>,
                                      <<Token("ul"), Token("mr")>>)
    /\ cs_result.exc = "none"
    /\ cs_result.value["columns"] = IntV(1)
    /\ cs_result.value["column_specifier"].t = "ref"
    /\ heap[cs_result.value["column_specifier"].v].identifier = "p"
    /\ heap[cs_result.value["column_specifier"].v].opts.width = FloatV(Rat(1, 5))
    /\ cs_result.value["underline"] = StrV("midrule")


----------------------------------------------------------------------------
(* Claims about the multicolumn_definitions override, checked under
   SpecOverride *)

OverrideOf(obj) == obj.opts.multicolumn_definitions

HasEntry(m, n) == n + 1 \in DOMAIN m.v

\* what get_n_definition(n) is to give for the override m
OverrideExpected(m, n) ==
    IF m.t = "ref" THEN [exc |-> "none", value |-> RefV(m.v)]
    ELSE IF HasEntry(m, n) THEN [exc |-> "none", value |-> RefV(m.v[n + 1])]
    ELSE [exc |-> "IndexError", value |-> NoneV]

\* the step is a get_n_definition call on a specifier whose override is a
\* specifier or a list of specifiers
GetNOnOverride ==
    /\ cs_call'.op = "get_n_definition"
    /\ OverrideOf(heap[cs_call'.self]).t \in {"ref", "list"}

\* C12: get_n_definition(n) on a specifier with an override creates no
\* specifier: it returns the override itself when that is one specifier, the
\* entry n when it is a list that has one, and raises otherwise
C12_OverrideReturned ==
    [][GetNOnOverride =>
          /\ heap' = heap
          /\ cs_result' = OverrideExpected(OverrideOf(heap[cs_call'.self]), cs_call'.n)]_vars

\* get_n_definition(1) on p[0.4,multicolumn_definitions=[l,r]] returned the
\* list's second entry, the r column
C12_Witness ==
    /\ cs_call.op = "get_n_definition"
    /\ cs_call.n = 1
    /\ OverrideOf(heap[cs_call.self]).t = "list"
    /\ Len(OverrideOf(heap[cs_call.self]).v) = 2
    /\ cs_result = [exc |-> "none", value |-> RefV(OverrideOf(heap[cs_call.self]).v[2])]
    /\ heap[cs_result.value.v].identifier = "r"


----------------------------------------------------------------------------
(* Claims about the element counters, checked under SpecCount *)

\* the counter of a type in a register, a new one while there is none
CounterOf(ce, register, type_name) ==
    IF ce = Unset THEN NewCounter
    ELSE IF register \notin DOMAIN ce THEN NewCounter
    ELSE IF type_name \notin DOMAIN ce[register] THEN NewCounter
    ELSE ce[register][type_name]

\* the count a counter holds at a level, 0 while it has none
CountAt(counter, index) ==
    IF index <= Len(counter.counts) THEN counter.counts[index] ELSE 0

\* the Table counter of the register a call counts in
TableCounter(ce, call) == CounterOf(ce, RegisterName(call.register), "Table")

\* the Header counter of that register
HeaderCounter(ce, call) == CounterOf(ce, RegisterName(call.register), "Header")

\* the call counted a Table and returned
CountedTable(c) ==
    /\ c.op = "count_elements"
    /\ c.elem.tag = c.call.relevant_elems
    /\ c.call.scope.kind # "tuple"

\* the call counted a Header as the scope of its counter
CountedScopeHeader(c) ==
    /\ c.op = "count_elements"
    /\ c.call.scope.kind = "dict"
    /\ c.elem.tag = c.call.scope.relevant_elems

\* the step is a count of a Table whose enclosing scope is the one the
\* counter was in
CountsTableInScope ==
    /\ CountedTable(ut_call')
    /\ TableCounter(doc_count_elems', ut_call'.call).scope
           = TableCounter(doc_count_elems, ut_call'.call).scope

\* two counts of a Table in a row, by the same call, in one scope
CountsTableTwice ==
    /\ CountedTable(ut_call)
    /\ CountsTableInScope
    /\ ut_call'.call = ut_call.call
    /\ TableCounter(ut_call.before, ut_call.call).scope
           = TableCounter(doc_count_elems, ut_call.call).scope

\* C13: a count_elements call on a matching element adds exactly 1 to the
\* counter of its type while the enclosing scope is unchanged (for a Header
\* counted as a scope: to the count of its level); no step lowers a Table
\* counter whose scope is unchanged; and two counts of a Table in a row
\* leave the count 2 higher
C13_CountsByOne ==
    [][/\ CountsTableInScope =>
              CountAt(TableCounter(doc_count_elems', ut_call'.call), 1)
                  = CountAt(TableCounter(doc_count_elems, ut_call'.call), 1) + 1
       /\ CountedScopeHeader(ut_call') =>
              CountAt(HeaderCounter(doc_count_elems', ut_call'.call), ut_call'.elem.level)
                  = CountAt(HeaderCounter(doc_count_elems, ut_call'.call),
                            ut_call'.elem.level) + 1
       /\ \A call \in CountCalls :
              TableCounter(doc_count_elems', call).scope
                      = TableCounter(doc_count_elems, call).scope =>
                  CountAt(TableCounter(doc_count_elems', call), 1)
                      >= CountAt(TableCounter(doc_count_elems, call), 1)
       /\ CountsTableTwice =>
              CountAt(TableCounter(doc_count_elems', ut_call.call), 1)
                  = CountAt(TableCounter(ut_call.before, ut_call.call), 1) + 2]_vars

\* a Table was counted a second time below the same header and the count
\* went from 1 to 2
C13_Witness ==
    /\ CountedTable(ut_call)
    /\ ut_call.call = FloatRowsCall
    /\ TableCounter(ut_call.before, ut_call.call) = [scope |-> <<1>>, counts |-> <<1>>]
    /\ TableCounter(doc_count_elems, ut_call.call) = [scope |-> <<1>>, counts |-> <<2>>]


\* the positions of the walk at which render_float_rows counted
FloatRowsAt == {i \in 1..Len(ut_walked) : ut_walked[i].call = FloatRowsCall}

\* the positions at which it met a level-1 header
Level1HeadersAt == {i \in FloatRowsAt : ut_walked[i].elem = HeaderElem(1)}

\* the positions at which it met a Table
TablesAt == {i \in FloatRowsAt : ut_walked[i].elem = TableElem}

\* the Tables met since the most recent level-1 header
TablesSinceHeader == {i \in TablesAt : \A j \in Level1HeadersAt : j < i}

\* what get_elem_count(doc, pf.Table, register="table") returns now
TableCountNow == GetElemCount(doc_count_elems, "Table", 1, StrV("table"))

\* (h, m): the level-1 headers seen and the Tables since the last of them
HeadersAndTables == <<Cardinality(Level1HeadersAt), Cardinality(TablesSinceHeader)>>

\* C14: once a Table has been counted below level-1 headers, get_elem_count
\* returns (h, m) after any sequence of headers and counted elements: h the
\* level-1 headers seen so far, m the Tables counted since the last of them
C14_CountPerHeader ==
    TablesAt # {} =>
        /\ TableCountNow.exc = "none"
        /\ TableCountNow.value = HeadersAndTables

\* C14 as the code keeps it: get_elem_count returns (h, m) when the element
\* counted last was a Table, whatever headers of either level came before
\* it; a header met after that Table leaves the count as it was until the
\* next Table is counted
C14_CountAfterTable ==
    (ut_walked # <<>> /\ Len(ut_walked) \in TablesAt) =>
        /\ TableCountNow.exc = "none"
        /\ TableCountNow.value = HeadersAndTables

\* a Table, a level-1 header and a second Table were met: the count
\* restarted at (1, 1)
C14_Witness ==
    /\ Len(ut_walked) = 3
    /\ TablesAt = {1, 3}
    /\ Level1HeadersAt = {2}
    /\ ut_call.op = "count_elements"
    /\ TableCountNow.value = <<1, 1>>


\* C16: count_elements called as render_table calls it, with the scope as
\* the tuple (None, Header, 2), returns without an error, and a Table it is
\* given is counted in the register
C16_TupleScopeAccepted ==
    (ut_call.op = "count_elements" /\ ut_call.call = RenderTableCall) =>
        /\ ut_result.exc = "none"
        /\ ut_call.elem = TableElem =>
               CountAt(TableCounter(doc_count_elems, ut_call.call), 1)
                   = CountAt(TableCounter(ut_call.before, ut_call.call), 1) + 1


RoundTripNext ==
    \/ /\ \E k \in DOMAIN DefinitionStrings :
              column_specifiers_from_text(DefinitionStrings[k])
       /\ UNCHANGED <<wk_vars, gc_vars, fr_vars, tm_vars, wa_vars, ul_vars, co_vars, ut_vars>>
    \/ /\ \E id \in 1..(MaxHeap + 1) : column_specifiers_from_repr(id)
       /\ UNCHANGED <<wk_vars, gc_vars, fr_vars, tm_vars, wa_vars, ul_vars, co_vars, ut_vars>>

SpecRoundTrip == ConstructInit /\ [][RoundTripNext]_vars

----------------------------------------------------------------------------
(* Claims about repr and the grammar, checked under SpecRoundTrip *)

RECURSIVE Equivalent(_, _, _)

\* two option values are the same, specifiers being compared by kind and
\* option values
ValueEquivalent(h, a, b) ==
    /\ a.t = b.t
    /\ IF a.t = "ref" THEN Equivalent(h, a.v, b.v)
       ELSE IF a.t = "list"
       THEN /\ Len(a.v) = Len(b.v)
            /\ \A i \in DOMAIN a.v : Equivalent(h, a.v[i], b.v[i])
       ELSE IF a.t = "None" THEN TRUE
       ELSE a.v = b.v

\* same kind, same resolved option values
Equivalent(h, x, y) ==
    /\ h[x].identifier = h[y].identifier
    /\ \A o \in DOMAIN h[x].opts : ValueEquivalent(h, h[x].opts[o], h[y].opts[o])

ReparsedRepr == cs_call.op = "column_specifiers_from_repr"

\* C15: parsing the repr of a specifier that parsing a column definition
\* string gave yields one specifier, equivalent to it (same kind, same
\* option values)
C15_ReprRoundTrip ==
    ReparsedRepr =>
        /\ cs_result.exc = "none"
        /\ Len(cs_result.value.v) = 1
        /\ Equivalent(heap, cs_call.of, cs_result.value.v[1])

\* what parsing a repr does give: the grammar reads the identifier, finds no
\* "[" after it and leaves the parenthesised options unread
ReprReadAsIdentifier ==
    ReparsedRepr =>
        parseString(cs_call.string)
            = Matched(2, <<Definition(heap[cs_call.of].identifier, <<>>, <<>>)>>)


DependenciesNext ==
    /\ ut_call = NoCall
    /\ \E dependencies \in DependencyGraphs,
          list_ \in SeqsOf(Functions, 0, MaxArguments) :
           reduce_dependencies(dependencies, list_)
    /\ UNCHANGED <<wk_vars, gc_vars, fr_vars, tm_vars, wa_vars, ul_vars, cs_vars, co_vars>>

SpecDependencies == CountInit /\ [][DependenciesNext]_vars

----------------------------------------------------------------------------
(* Claims about reduce_dependencies, checked under SpecDependencies *)

\* the functions that can be reached from a set of functions
RECURSIVE ReachableFrom(_, _)
ReachableFrom(dependencies, S) ==
    IF UNION {Members(dependencies[f]) : f \in S} \subseteq S THEN S
    ELSE ReachableFrom(dependencies, S \cup UNION {Members(dependencies[f]) : f \in S})

\* the direct and transitive dependencies of a function
DependenciesClosure(dependencies, f) ==
    ReachableFrom(dependencies, Members(dependencies[f]))

\* no function reachable from the arguments depends on itself
Acyclic(dependencies, list_) ==
    \A f \in ReachableFrom(dependencies, Members(list_)) :
        f \notin DependenciesClosure(dependencies, f)

\* the list holds every reachable function once, each after all of its
\* dependencies
OrderedOnce(dependencies, list_, value) ==
    /\ Members(value) = ReachableFrom(dependencies, Members(list_))
    /\ \A i, j \in DOMAIN value : value[i] = value[j] => i = j
    /\ \A i, j \in DOMAIN value :
           value[j] \in DependenciesClosure(dependencies, value[i]) => j < i

ReducedCall == ut_call.op = "reduce_dependencies"

\* C17: reduce_dependencies returns normally exactly when the graph that
\* can be reached from its arguments is acyclic, and raises 'Circular
\* dependency' otherwise; the list returned holds every reachable function
\* once, each after its direct and transitive dependencies
C17_ResolvedIffAcyclic ==
    ReducedCall =>
        /\ ut_result.exc = "none" <=> Acyclic(ut_call.dependencies, ut_call.list_)
        /\ ut_result.exc # "none" => ut_result.exc = "Circular dependency"
        /\ ut_result.exc = "none" =>
               OrderedOnce(ut_call.dependencies, ut_call.list_, ut_result.value)

\* C17 as the code keeps it: the same for a call with at least one
\* argument; a call without arguments raises TypeError
C17_ResolvedIffAcyclicGivenArguments ==
    ReducedCall =>
        IF ut_call.list_ = <<>> THEN ut_result.exc = "TypeError"
        ELSE /\ ut_result.exc = "none" <=> Acyclic(ut_call.dependencies, ut_call.list_)
             /\ ut_result.exc # "none" => ut_result.exc = "Circular dependency"
             /\ ut_result.exc = "none" =>
                    OrderedOnce(ut_call.dependencies, ut_call.list_, ut_result.value)

\* a function was resolved whose dependency has a dependency of its own
\* that the function does not name
C17_Witness ==
    /\ ReducedCall
    /\ ut_result.exc = "none"
    /\ Len(ut_call.list_) = 1
    /\ Len(ut_result.value) = MaxFunctions
    /\ \E f \in DependenciesClosure(ut_call.dependencies, ut_call.list_[1]) :
           f \notin Members(ut_call.dependencies[ut_call.list_[1]])


----------------------------------------------------------------------------
(* Claims about the width given to a paragraph column, checked under
   SpecConstruct *)

\* the value a constructor call gives for width: the keyword argument, or
\* else the first positional one
GivenWidth(args, kwargs) ==
    IF "width" \in DOMAIN kwargs THEN kwargs["width"]
    ELSE IF args # <<>> THEN args[1]
    ELSE NoneV

\* a paragraph column was constructed with a width string that float()
\* does not read
InvalidWidthGiven ==
    /\ cs_call.op = "construct"
    /\ cs_call.cls \in ParagraphColumns
    /\ GivenWidth(cs_call.args, cs_call.kwargs).t = "str"
    /\ ~IsFloatLiteral(GivenWidth(cs_call.args, cs_call.kwargs).v)

\* C18: a paragraph column given a width string that is not a valid number
\* raises ValueError, and no column holding that width is made
C18_InvalidWidthRaises ==
    InvalidWidthGiven =>
        /\ cs_result.exc = "ValueError"
        /\ heap = ImportedHeap


----------------------------------------------------------------------------
(* Claims about the widths of the indentation levels, checked under
   SpecIndent *)

\* the width still remaining before level j: the width of the column less
\* the widths the levels before j received
RemainingBefore(w, widths, j) == RSub(w, RSum(SubSeq(widths, 1, j - 1)))

\* C20: in indent(k) on a paragraph column of width w, each level j of
\* 1..k receives indent_fraction times the width remaining after the levels
\* 1..j-1, and the column itself keeps what remains after the k levels
C20_FractionOfRemaining ==
    (ParagraphIndented /\ cs_result.exc = "none") =>
        /\ \A j \in 1..cs_call.num :
               ReturnedWidths[j]
                   = RMul(cs_call.before.opts.indent_fraction.v,
                          RemainingBefore(cs_call.before.opts.width.v,
                                          ReturnedWidths, j))
        /\ ReturnedWidths[cs_call.num + 1]
               = RemainingBefore(cs_call.before.opts.width.v, ReturnedWidths,
                                 cs_call.num + 1)

\* what the code gives every level: indent_fraction times the width the
\* column had when indent was called
ConstantStep ==
    (ParagraphIndented /\ cs_result.exc = "none") =>
        \A j \in 1..cs_call.num :
            ReturnedWidths[j]
                = RMul(cs_call.before.opts.indent_fraction.v,
                       cs_call.before.opts.width.v)


FormatRowSpecInit ==
    FormatRowInit /\ ColumnIdle /\ TableMatrixIdle /\ WidthIdle /\ UnderlineIdle
        /\ CellOptionsIdle /\ UtilsIdle /\ GetColsIdle /\ WalkIdle

FormatRowNext ==
    \/ /\ \E cell \in Cells : format_row_cell(cell)
       /\ UNCHANGED <<wk_vars, gc_vars, tm_vars, wa_vars, ul_vars, cs_vars, co_vars, ut_vars>>
    \/ /\ format_row_return
       /\ UNCHANGED <<wk_vars, gc_vars, tm_vars, wa_vars, ul_vars, cs_vars, co_vars, ut_vars>>

SpecFormatRow == FormatRowSpecInit /\ [][FormatRowNext]_vars

\* the rows of at most MaxHeaderCells cells
HeaderRowSpecInit == FormatRowSpecInit /\ Len(fr_cols) <= MaxHeaderCells

SpecHeaderRow == HeaderRowSpecInit /\ [][FormatRowNext]_vars

GetColsSpecInit ==
    GetColsInit /\ ColumnIdle /\ TableMatrixIdle /\ WidthIdle /\ UnderlineIdle
        /\ CellOptionsIdle /\ UtilsIdle /\ FormatRowIdle /\ WalkIdle

GetColsNext ==
    \/ /\ get_cols_begin
       /\ UNCHANGED <<wk_vars, fr_vars, tm_vars, wa_vars, ul_vars, cs_vars, co_vars, ut_vars>>
    \/ /\ get_cols_cell
       /\ UNCHANGED <<wk_vars, fr_vars, tm_vars, wa_vars, ul_vars, cs_vars, co_vars, ut_vars>>
    \/ /\ get_cols_return
       /\ UNCHANGED <<wk_vars, fr_vars, tm_vars, wa_vars, ul_vars, cs_vars, co_vars, ut_vars>>
    \/ /\ format_row_indent
       /\ UNCHANGED <<wk_vars, fr_vars, tm_vars, wa_vars, ul_vars, cs_vars, co_vars, ut_vars>>

SpecGetCols == GetColsSpecInit /\ [][GetColsNext]_vars

WalkSpecInit ==
    WalkInit /\ ColumnIdle /\ TableMatrixIdle /\ WidthIdle /\ UnderlineIdle
        /\ CellOptionsIdle /\ UtilsIdle /\ FormatRowIdle /\ GetColsIdle

WalkNext ==
    \/ /\ walk
       /\ UNCHANGED <<gc_vars, fr_vars, tm_vars, wa_vars, ul_vars, cs_vars, co_vars, ut_vars>>
    \/ /\ walked
       /\ UNCHANGED <<gc_vars, fr_vars, tm_vars, wa_vars, ul_vars, cs_vars, co_vars, ut_vars>>

SpecWalk == WalkSpecInit /\ [][WalkNext]_vars

----------------------------------------------------------------------------
(* Claims about the rules of a row, checked under SpecFormatRow *)

\* the pass handled a cell whose underline has a width
WidthUnderlined ==
    /\ fr_pc = "loop"
    /\ ~fr_cell.skipped
    /\ fr_cell.underline.t = "int"
    /\ fr_cell.underline.v > 0

LastLine == fr_appended[1]

\* C19: a cell starting at the physical column from_, with multicolumn span
\* s and underline width u, gets a partial rule from from_ to
\* from_ + max(s, u) - 1, wherever the cell is and however deep the columns
\* are indented
C19_RuleSpansMax ==
    WidthUnderlined =>
        /\ fr_appended # <<>>
        /\ LastLine.kind = "cmidrule"
        /\ LastLine.from_ = fr_cell.from_
        /\ LastLine.to = fr_cell.from_
               + Max(fr_cell.multicolumn_, fr_cell.underline.v) - 1

\* what the code emits: the rule also runs over the indentation depths of
\* the max(s, u) columns from the cell's on
RuleSpansMaxAndDepths ==
    WidthUnderlined =>
        /\ fr_appended # <<>>
        /\ LastLine.kind = "cmidrule"
        /\ LastLine.from_ = fr_cell.from_
        /\ LastLine.to = fr_cell.from_
               + Max(fr_cell.multicolumn_, fr_cell.underline.v) - 1
               + SliceSum(fr_cols, fr_cell.i,
                          fr_cell.i + Max(fr_cell.multicolumn_,
                                          fr_cell.underline.v))

\* a state the row reaches: the rule of an indented cell runs past the last
\* physical column although the columns it names are all in the row
RulePastRow ==
    /\ WidthUnderlined
    /\ fr_cell.i + Max(fr_cell.multicolumn_, fr_cell.underline.v)
           <= Len(fr_cols)
    /\ LastLine.to > Len(fr_cols) + SliceSum(fr_cols, 0, Len(fr_cols))


----------------------------------------------------------------------------
(* Claims about a table without unspecified columns, checked under
   SpecWidth *)

\* every column of the table has an explicit nonzero width
AllWidthsGiven == \A i \in DOMAIN wa_table.width : RTruthy(wa_table.width[i])

\* C26: width allocation completes for every width vector, and when no
\* column is unspecified each resolved width is the given width times
\* total_width
C26_AllocationCompletes ==
    wa_pc = "done" =>
        /\ wa_result.exc = "none"
        /\ AllWidthsGiven =>
               /\ Len(wa_result.widths) = Len(wa_table.width)
               /\ \A i \in DOMAIN wa_table.width :
                      wa_result.widths[i]
                          = RMul(wa_table.width[i], wa_table.total_width)


----------------------------------------------------------------------------
(* Claims about the rules and the columns of a row, checked under
   SpecFormatRow, C22 under SpecHeaderRow *)

\* n_rst_cols + sum(cols), the physical columns of the table
PhysicalColumns == Len(fr_cols) + SliceSum(fr_cols, 0, Len(fr_cols))

\* C25: every partial rule a cell of the row appends has a range from-to with
\* 1 <= from <= to <= n_rst_cols + sum(cols)
C25_RuleInsideRow ==
    \A k \in DOMAIN fr_appended :
        fr_appended[k].kind = "cmidrule" =>
            /\ 1 <= fr_appended[k].from_
            /\ fr_appended[k].from_ <= fr_appended[k].to
            /\ fr_appended[k].to <= PhysicalColumns

\* the lower half of the range holds: no rule starts before column 1 or
\* ends before it starts
RuleStartsInsideRow ==
    \A k \in DOMAIN fr_appended :
        fr_appended[k].kind = "cmidrule" =>
            /\ 1 <= fr_appended[k].from_
            /\ fr_appended[k].from_ <= fr_appended[k].to
            /\ fr_appended[k].from_ <= PhysicalColumns


\* the rules the cells of the row produced
ExplicitRules == fr_lines - Len(fr_appended)

\* the end of format_row appended one full-width rule
AutomaticRule == fr_appended = <<Midrule>>

\* C22: a header row gets exactly one automatic full-width rule iff no cell
\* of the row produced a rule; a row that is not a header never gets one
C22_HeaderMidrule ==
    fr_pc = "returned" =>
        /\ AutomaticRule <=> (fr_is_header /\ ExplicitRules = 0)
        /\ ~AutomaticRule => fr_appended = <<>>

\* C22 for a row that put anything into cells: format_row returns [] for
\* the others, without a rule
C22_HeaderMidruleOfRow ==
    (fr_pc = "returned" /\ fr_cells > 0) =>
        /\ AutomaticRule <=> (fr_is_header /\ ExplicitRules = 0)
        /\ ~AutomaticRule => fr_appended = <<>>

C22_Witness ==
    /\ fr_pc = "returned"
    /\ fr_is_header
    /\ Len(fr_cols) > 1
    /\ ExplicitRules = 0
    /\ AutomaticRule

\* a header row whose cell produced a rule: no automatic rule
HeaderWithExplicitRule ==
    /\ fr_pc = "returned"
    /\ fr_is_header
    /\ fr_cells > 0
    /\ ExplicitRules > 0
    /\ fr_appended = <<>>

\* a header row that put nothing into cells
EmptyHeaderRow ==
    /\ fr_pc = "returned"
    /\ fr_is_header
    /\ fr_cells = 0


\* C24: the inlines of a row fill exactly n_rst_cols + sum(cols) physical
\* columns, and a source cell is skipped exactly when it is one of the k - 1
\* cells after a multicolumn cell spanning k source columns
C24_ColumnsAndSkips ==
    [][/\ fr_i' = fr_i + 1 => (fr_cell'.skipped <=> fr_spanned > 0)
       /\ fr_pc' = "returned" => fr_columns' = PhysicalColumns]_vars

\* no spanned cell is emitted: the cells skipped are at least the k - 1
\* spanned ones
SpannedCellsSkipped ==
    [][fr_i' = fr_i + 1 /\ fr_spanned > 0 => fr_cell'.skipped]_vars


\* the cell handled last became a \multicolumn and the table does not leave
\* its padding
PaddedMulticolumn ==
    /\ ~fr_cell.skipped
    /\ fr_cell.is_multicolumn
    /\ ~fr_leave

\* the last physical column of that multicolumn
LastColumn == fr_cell.from_ + fr_cell.multicolumn - 1

\* C21: a multicolumn loses its left padding iff its first physical column
\* is the first of the table and its right padding iff its last physical
\* column is the last of the table: both at both edges, none at neither
C21_EdgePadding ==
    PaddedMulticolumn =>
        /\ fr_cell.align.no_left_padding <=> fr_cell.from_ = 1
        /\ fr_cell.align.no_right_padding <=> LastColumn = PhysicalColumns

\* what the code does: the left padding goes with the first source cell,
\* the right padding at the right edge of every other cell
PaddingByFirstCell ==
    PaddedMulticolumn =>
        /\ fr_cell.align.no_left_padding <=> fr_cell.i = 0
        /\ fr_cell.align.no_right_padding
               <=> (fr_cell.i # 0 /\ LastColumn = PhysicalColumns)

\* a multicolumn over the whole row keeps its right padding
WholeRowKeepsRightPadding ==
    /\ PaddedMulticolumn
    /\ fr_cell.from_ = 1
    /\ LastColumn = PhysicalColumns
    /\ ~fr_cell.align.no_right_padding


----------------------------------------------------------------------------
(* Claims about get_elem_count as a query, checked under SpecQuery *)

\* get_elem_count is called again with the arguments of the call before
SameQueryAgain ==
    /\ ut_call.op = "get_elem_count"
    /\ ut_call'.op = "get_elem_count"
    /\ ut_call'.relevant_elems = ut_call.relevant_elems
    /\ ut_call'.level = ut_call.level
    /\ ut_call'.register = ut_call.register

\* C27: two consecutive calls of get_elem_count with the same arguments
\* return the same tuple, at every level
C27_QueryRepeats ==
    [][SameQueryAgain => ut_result' = ut_result]_vars

\* at level 1 they do
QueryRepeatsAtLevelOne ==
    [][SameQueryAgain /\ ut_call.level = 1 => ut_result' = ut_result]_vars

\* the first query of a type never counted returns (0,) * level, and makes
\* the counter the second query reads
FirstQueryZeros ==
    (/\ ut_call.op = "get_elem_count"
     /\ ut_call.before # Unset
     /\ ~(/\ RegisterName(ut_call.register) \in DOMAIN ut_call.before
          /\ ut_call.relevant_elems
                 \in DOMAIN ut_call.before[RegisterName(ut_call.register)]))
        => /\ ut_result = [exc |-> "none", value |-> Zeros(ut_call.level)]
           /\ doc_count_elems # ut_call.before


----------------------------------------------------------------------------
(* Claims about the specifier a multicolumn is anchored on, checked under
   SpecIndent *)

\* get_n_definition was called on a paragraph column without a multicolumn
\* override
ParagraphAnchor ==
    /\ cs_call.op = "get_n_definition"
    /\ IsParagraph(heap[cs_call.self])
    /\ heap[cs_call.self].opts.multicolumn_definitions.t = "None"

\* that column was never indented by one level or more: indent was not
\* called on it, or only indent(0)
Unindented == heap[cs_call.self].widths_of_indents = Unset

\* C28: get_n_definition(n) of a paragraph column without override returns
\* a paragraph specifier, also for a column of indentation depth 0, where
\* get_n_definition(0) is a copy with the column's own width
C28_ParagraphAnchorDefined ==
    ParagraphAnchor =>
        /\ cs_result.exc = "none"
        /\ IsParagraph(heap[cs_result.value.v])
        /\ (Unindented /\ cs_call.n = 0) =>
               heap[cs_result.value.v].opts.width = heap[cs_call.self].opts.width

\* what the code does for a column of depth 0
UnindentedAnchorRaises ==
    (ParagraphAnchor /\ Unindented) => cs_result.exc = "AttributeError"

\* for a column indented by one level or more the specifier is returned
IndentedAnchorDefined ==
    (ParagraphAnchor /\ ~Unindented) =>
        /\ cs_result.exc = "none"
        /\ IsParagraph(heap[cs_result.value.v])


----------------------------------------------------------------------------
(* Claims about the sentinels of one cell taken together, checked under
   SpecCellOptions *)

\* the walk hands _get_cell_options an element that is no directive
ElementStep ==
    /\ co_pc = "walk"
    /\ co_pc' = "walk"
    /\ co_n' = co_n + 1
    /\ co_elem'.tag # "RawInline"

\* groups is the match of a text that names an underline or a multicolumn
IsSentinel(groups) ==
    /\ groups.matched
    /\ groups.underline # NoneV \/ groups.multicolumn # NoneV

\* the sentinel adds its widths to the options: what it does not name stays
Accumulated(groups, options, after) ==
    /\ after.underline = IF groups.underline # NoneV
                         THEN IntV(UnderlineWidth(groups))
                         ELSE options.underline
    /\ after.multicolumn = IF groups.multicolumn # NoneV
                           THEN IntV(MulticolumnWidth(groups))
                           ELSE options.multicolumn
    /\ after.align = options.align
    /\ after.force_multicolumn = options.force_multicolumn

\* what the claim says of one element, groups being the match of its text
SentinelAccumulated(groups) ==
    IF IsSentinel(groups)
    THEN Accumulated(groups, doc_cell_options, doc_cell_options')
    ELSE doc_cell_options' = doc_cell_options /\ ~co_removed'

\* the match of the text of an element; a Space has no text
GroupsOf(elem) ==
    IF elem.tag = "Str" THEN is_option_string(elem.text) ELSE [matched |-> FALSE]

\* C29: the sentinels of a cell accumulate (an underline sentinel and a
\* multicolumn sentinel in two elements give both widths), and an element
\* that is no sentinel, an empty or blank text among them, changes no option
\* and stays in the cell
C29_SentinelsAccumulate ==
    [][ElementStep => SentinelAccumulated(GroupsOf(co_elem'))]_vars

\* what the code does: every text the expression matches, the empty and the
\* blank ones too, is removed and sets both widths, to 0 and 1 for what it
\* does not name
MatchSetsBothWidths ==
    [][(ElementStep /\ GroupsOf(co_elem').matched) =>
           /\ co_removed'
           /\ doc_cell_options'.underline = IntV(UnderlineWidth(GroupsOf(co_elem')))
           /\ doc_cell_options'.multicolumn
                  = IntV(MulticolumnWidth(GroupsOf(co_elem')))]_vars

\* a cell holding '_' and then '>': the underline is gone
UnderlineLost ==
    /\ co_pc = "walk"
    /\ co_n = 2
    /\ co_elem = Str(<<">">>)
    /\ doc_cell_options.multicolumn = IntV(2)
    /\ doc_cell_options.underline = IntV(0)


----------------------------------------------------------------------------
(* Claims about the two walks over the '~~~' of a table, checked under
   SpecGetCols *)

\* max(cell i of every row of the table as given)
DeepestIndent(i) ==
    CHOOSE m \in {ChainedRows(gc_given)[r][i] : r \in DOMAIN ChainedRows(gc_given)} :
        \A r \in DOMAIN ChainedRows(gc_given) : ChainedRows(gc_given)[r][i] <= m

\* cell i of row r comes before the position of the walk
Walked(r, i) == r < gc_r \/ (r = gc_r /\ i < gc_i)

\* C23: get_cols returns for each column the most '~~~' a cell of the column
\* holds, in the header row or a body row, and removes none of them; the
\* walk of format_row that follows strips them, cell by cell
C23_TwoPasses ==
    /\ gc_pc \in {"called", "measure"} => gc_elem = gc_given
    /\ gc_pc \in {"format", "formatted"} =>
           /\ DOMAIN gc_cols = DOMAIN gc_given.content[1]
           /\ \A i \in DOMAIN gc_cols : gc_cols[i] = DeepestIndent(i)
           /\ \A r \in DOMAIN ChainedRows(gc_given) :
                  \A i \in DOMAIN ChainedRows(gc_given)[r] :
                      ChainedRows(gc_elem)[r][i]
                          = IF gc_pc = "formatted" \/ Walked(r, i) THEN 0
                            ELSE ChainedRows(gc_given)[r][i]

\* a table with a header and two body rows whose '~~~' are in the header
\* and in the second body row has been measured and stripped
C23_Witness ==
    /\ gc_pc = "formatted"
    /\ HasHeader(gc_given)
    /\ Len(gc_given.content) = 2
    /\ gc_given.header[1] > 0
    /\ gc_given.content[1][1] = 0
    /\ Len(gc_cols) = 2
    /\ gc_given.content[2][2] > 0
    /\ gc_cols[1] > 0
    /\ gc_cols[2] > 0

\* the cell_indent format_row finds in a cell is at most cols[i]
CellIndentWithinCols ==
    (gc_pc \in {"format", "formatted"} /\ (gc_r > 1 \/ gc_i > 1)) =>
        doc_table_indent <= gc_cols[IF gc_i > 1 THEN gc_i - 1 ELSE Len(gc_cols)]


----------------------------------------------------------------------------
(* Claims about the actions run before and after the children of an element,
   checked under SpecWalk *)

\* elem is a child of ancestor, or a child of one of its descendants
RECURSIVE IsDescendant(_, _, _)
IsDescendant(tree, elem, ancestor) ==
    /\ tree[elem] # 0
    /\ tree[elem] = ancestor \/ IsDescendant(tree, tree[elem], ancestor)

\* part 0 of the function is the code before its first yield, part 1 the
\* code after it
PartRan(part, elem) ==
    \E k \in DOMAIN wk_log : wk_log[k].part = part /\ wk_log[k].elem = elem

\* every part of the function that the walk runs for elem has been run
Processed(elem, before) ==
    /\ \E k \in 1..(before - 1) : wk_log[k].part = 0 /\ wk_log[k].elem = elem
    /\ wk_yields >= 1 =>
           \E k \in 1..(before - 1) : wk_log[k].part = 1 /\ wk_log[k].elem = elem

\* C30: for every element the code before the first yield runs before any
\* descendant is processed and the code after it when all descendants have
\* been processed, both by a generator made for that element
C30_BeforeAndAfterChildren ==
    /\ wk_pc # "raised"
    /\ \A k \in DOMAIN wk_log :
           /\ wk_log[k].elem = wk_log[k].during
           /\ wk_log[k].part \in {0, 1}
           /\ \A l \in DOMAIN wk_log :
                  /\ (l # k /\ wk_log[l].elem = wk_log[k].elem)
                         => wk_log[l].part # wk_log[k].part
                  /\ (IsDescendant(wk_tree, wk_log[l].elem, wk_log[k].elem)
                          /\ wk_log[k].part = 0) => k < l
           /\ wk_log[k].part = 1 =>
                  /\ \E l \in 1..(k - 1) :
                         wk_log[l].part = 0 /\ wk_log[l].elem = wk_log[k].elem
                  /\ \A elem \in DOMAIN wk_tree :
                         IsDescendant(wk_tree, elem, wk_log[k].elem)
                             => Processed(elem, k)
    /\ wk_pc = "returned" =>
           \A elem \in DOMAIN wk_tree : Processed(elem, Len(wk_log) + 1)

\* the walk of a tree with a grandchild and two children of one element has
\* returned, the function yielding
C30_Witness ==
    /\ wk_pc = "returned"
    /\ wk_yields >= 1
    /\ Len(wk_tree) = 4
    /\ wk_tree[3] = 2
    /\ wk_tree[4] = 1
    /\ PartRan(1, 1)
    /\ PartRan(1, 3)

====
